---- MODULE Spec2Model ----
(***************************************************************************)
(* Contacts API (FastAPI + SQLAlchemy + Redis): the identity layer.        *)
(* State: the users table, the two Redis key families ("user:<id>" and     *)
(* "reset_token:<email>"), the wall clock, the uuid4 source, the bearer    *)
(* token each account's client holds from its last /login, and a history   *)
(* of the single-use tokens that were redeemed, replaced or handed out.    *)
(* A route handler is an operator from the request and the current state   *)
(* to its outcome (the HTTP reply and the state it leaves); the action of  *)
(* the route installs that outcome.  Under Spec a handler is one step;      *)
(* under SpecInterleaved a signup may also run as two steps, its lookup    *)
(* and its INSERT, with other requests between them (pending: the signups  *)
(* between the two).                                                       *)
(***************************************************************************)
EXTENDS Integers, Sequences, FiniteSets, TLC

\* ------------------------------------------------------------------ bounds
MaxTokens == 2
MaxTicks == 1
MaxContacts == 2
MaxInFlight == 2

\* ------------------------------------------------------- program constants
ACCESS_TOKEN_EXPIRE_MINUTES == 30
DEFAULT_EXPIRE_MINUTES == 15
USER_CACHE_TTL == 3600
RESET_TOKEN_TTL == 3600
\* One step of the clock: a cache lifetime.
TickStep == USER_CACHE_TTL

SECRET_KEY == "secret"

\* ------------------------------------------------------------ input values
AdminEmail == "admin@x.com"
Emails == {"a@x.com", AdminEmail}
Passwords == {"pw1", "pw2"}
\* The password a client signs up with under Next; the other one reaches a
\* row through a password reset, and a login presents either.
SignupPasswords == {"pw1"}
Urls == {"url1"}
UuidSpace == 1..MaxTokens

NoToken == 0
NoAvatar == "null"
NoSub == "null"

\* Inputs of the contacts routes.  ContactCreate carries first_name,
\* last_name, email, phone_number, birthday and additional_data; the model
\* keeps first_name, email (unique in the table) and birthday (a day number,
\* day 0 being the day the clock starts in).
ContactIds == 1..MaxContacts
ContactCreates ==
    {[first_name |-> "Ann", email |-> "c1@x.com", birthday |-> 3],
     [first_name |-> "Bob", email |-> "c2@x.com", birthday |-> 30]}
Queries == {"", "Ann", "c2@x.com"}
Skips == {0, 1}
Limits == {1, 100}
SecondsPerDay == 86400

VARIABLES users, userCache, resetCache, now, nextUuid, bearer, history,
          pending, contacts, nextContactId, resolving, updating, resetting,
          resending, awaiting, redisAnswers

vars == <<users, userCache, resetCache, now, nextUuid, bearer, history,
          pending, contacts, nextContactId, resolving, updating, resetting,
          resending, awaiting, redisAnswers>>

\* The contacts table and the sequence behind its primary key.
contactVars == <<contacts, nextContactId>>

\* Requests in flight between two of their steps (see the specifications
\* with concurrent requests below).
\* Requests waiting for the answer of a Redis command, and whether the
\* Redis service answers.
cacheVars == <<awaiting, redisAnswers>>

raceVars == <<resolving, updating, resetting, resending, cacheVars>>

\* --------------------------------------------------------------- models.py
UserRole == {"user", "admin"}

\* A row of the users table; the primary key is the row's index in users.
User(email, hashed_password, verification_token) ==
    [email              |-> email,
     hashed_password    |-> hashed_password,
     avatar             |-> NoAvatar,
     verified           |-> FALSE,
     verification_token |-> verification_token,
     role               |-> "user",
     reset_token        |-> NoToken]

Ids == 1..Len(users)

\* ----------------------------------------------------------------- auth.py
\* bcrypt digest: opaque, and different from the plaintext.
get_password_hash(password) == <<"bcrypt", password>>

verify_password(plain_password, hashed_password) ==
    hashed_password = get_password_hash(plain_password)

NoBearer == [sub |-> NoSub, exp |-> 0, sig |-> ""]

\* jwt.encode: the claims and the signature made with the key.
JwtEncode(claims, key) == [sub |-> claims.sub, exp |-> claims.exp, sig |-> key]

\* Mutant of create_access_token: the default window is used whatever the
\* caller asks for.
create_access_token_default_window(sub, expires_delta) ==
    JwtEncode([sub |-> sub, exp |-> now + DEFAULT_EXPIRE_MINUTES * 60],
              SECRET_KEY)

create_access_token(sub, expires_delta) ==
    LET expire == IF expires_delta # 0
                  THEN now + expires_delta
                  ELSE now + DEFAULT_EXPIRE_MINUTES * 60
    IN JwtEncode([sub |-> sub, exp |-> expire], SECRET_KEY)

\* Mutant of JwtDecodeOk: the expiry of the token is not looked at.
JwtDecodeOk_ignores_exp(token, key) == token.sig = key

\* Mutant of JwtDecodeOk: every token is refused once a password has been
\* reset.
JwtDecodeOk_revoked_by_reset(token, key) ==
    token.sig = key /\ ~(token.exp < now) /\ history.reset = {}

\* jwt.decode: the signature must verify and the token must not be expired
\* (python-jose raises ExpiredSignatureError when exp < now).
JwtDecodeOk(token, key) == token.sig = key /\ ~(token.exp < now)

\* jwt.decode as a value: the payload of the token, or nothing when JWTError
\* is raised.
JwtDecode(token, key) ==
    IF JwtDecodeOk(token, key) THEN {[sub |-> token.sub, exp |-> token.exp]}
    ELSE {}

\* ------------------------------------------------------- redis_client.py
\* Redis keeps a value with an absolute expiry; an expired key reads as nil.
Setex(cache, key, ttl, value) ==
    (key :> [val |-> value, exp |-> now + ttl]) @@ cache

\* GET at instant t: the value of a key that is there and has not expired.
GetAt(cache, key, t) ==
    IF key \in DOMAIN cache /\ t < cache[key].exp
    THEN {cache[key].val} ELSE {}

Get(cache, key) == GetAt(cache, key, now)

Delete(cache, key) == [k \in (DOMAIN cache) \ {key} |-> cache[k]]

JsonDumps(d) == <<"json", d>>
JsonLoads(s) == s[2]

cache_user(cache, user_id, user_data) ==
    Setex(cache, user_id, USER_CACHE_TTL, JsonDumps(user_data))

get_cached_user(cache, user_id) ==
    {JsonLoads(s) : s \in Get(cache, user_id)}

\* Mutant of invalidate_user_cache: the key is left in Redis.
invalidate_user_cache_keeps_key(cache, user_id) == cache

invalidate_user_cache(cache, user_id) == Delete(cache, user_id)

cache_reset_token(cache, email, token, expire_time) ==
    Setex(cache, email, expire_time, token)

get_reset_token(cache, email) == Get(cache, email)

invalidate_reset_token(cache, email) == Delete(cache, email)

\* ----------------------------------------------------------------- crud.py
\* .filter(...).first(): the matching row with the lowest id, 0 for None.
First(S) == IF S = {} THEN 0 ELSE CHOOSE i \in S : \A j \in S : i <= j

get_user_by_email(email) == First({i \in Ids : users[i].email = email})

\* Mutant of UserByVerificationToken: any unverified row matches.
UserByVerificationToken_any_unverified(token) ==
    First({i \in Ids : ~users[i].verified})

UserByVerificationToken(token) ==
    First({i \in Ids : users[i].verification_token = token})

UserByResetToken(token) ==
    First({i \in Ids : users[i].reset_token = token})

\* Mutant of create_user: the new row gets the admin role.
create_user_as_admin(email, password, uuid) ==
    Append(users, [User(email, get_password_hash(password), uuid)
                      EXCEPT !.role = "admin"])

create_user(email, password, uuid) ==
    Append(users, User(email, get_password_hash(password), uuid))

\* Mutant of update_verification_status: the token is left in the row.
update_verification_status_keeps_token(id) ==
    [users EXCEPT ![id].verified = TRUE]

update_verification_status(id) ==
    [users EXCEPT ![id].verified = TRUE, ![id].verification_token = NoToken]

\* Mutant of set_verification_token: the new uuid is not written to the row.
set_verification_token_unassigned(id, uuid) ==
    [users EXCEPT ![id].verification_token = @]

set_verification_token(id, uuid) ==
    [users EXCEPT ![id].verification_token = uuid]

\* Mutant of update_avatar: the URL is written to every row.
update_avatar_every_row(id, url) ==
    [i \in Ids |-> [users[i] EXCEPT !.avatar = url]]

update_avatar(id, url) == [users EXCEPT ![id].avatar = url]

\* A row of the contacts table.
Contact(id, contact, user_id) ==
    [id |-> id, first_name |-> contact.first_name, email |-> contact.email,
     birthday |-> contact.birthday, user_id |-> user_id]

\* .first() / .all() of a contacts query: the set of rows found.
get_contact(contact_id, user_id) ==
    {c \in contacts : c.id = contact_id /\ c.user_id = user_id}

\* .offset(skip).limit(limit).all() has no ORDER BY: every page of the right
\* size drawn from the caller's rows is a possible result.
get_contacts(user_id, skip, limit) ==
    LET mine == {c \in contacts : c.user_id = user_id}
        rest == IF Cardinality(mine) > skip THEN Cardinality(mine) - skip
                ELSE 0
        size == IF rest < limit THEN rest ELSE limit
    IN {page \in SUBSET mine : Cardinality(page) = size}

\* The unique index on contacts.email: the row (id, email) cannot be stored
\* while another row holds the email.
\* The unique index on contacts.email, over the rows of a table.
ContactEmailTakenIn(table, id, email) ==
    \E c \in table : c.id # id /\ c.email = email

ContactEmailTaken(id, email) == ContactEmailTakenIn(contacts, id, email)

create_contact(contact, user_id) ==
    contacts \cup {Contact(nextContactId, contact, user_id)}

update_contact(contact_id, contact, user_id) ==
    {IF c.id = contact_id /\ c.user_id = user_id
     THEN Contact(c.id, contact, c.user_id) ELSE c : c \in contacts}

delete_contact(contact_id, user_id) ==
    {c \in contacts : ~(c.id = contact_id /\ c.user_id = user_id)}

\* ilike("%query%"): the queries drawn are the empty string and whole field
\* values, none of which is part of another.
ILike(field, query) == query = "" \/ field = query

search_contacts(query, user_id) ==
    {c \in contacts : /\ ILike(c.first_name, query) \/ ILike(c.email, query)
                      /\ c.user_id = user_id}

get_birthdays(user_id) ==
    LET today == now \div SecondsPerDay
        end_date == today + 7
    IN {c \in contacts : /\ c.birthday >= today /\ c.birthday <= end_date
                         /\ c.user_id = user_id}

\* --------------------------------------------------------------- outcomes
\* What a request leaves behind.  status, detail, access_token and body (the
\* contacts returned) are the HTTP reply; uid is the users row the handler
\* worked on (0: none); notify is the uuid handed to the out-of-band notifier
\* (printed); uuids counts the uuid4 values drawn and cids the contact ids
\* drawn; identity is the users row a resolution returns to the route;
\* users, contacts, userCache and resetCache are the store and the cache
\* after the request.
Outcome(status, detail) ==
    [status |-> status, detail |-> detail, access_token |-> NoBearer,
     uid |-> 0, notify |-> NoToken, uuids |-> 0,
     users |-> users, userCache |-> userCache, resetCache |-> resetCache,
     body |-> {}, cids |-> 0, contacts |-> contacts, identity |-> {}]

\* An exception no handler catches: the server answers 500.
InternalServerError == Outcome(500, "Internal Server Error")

\* The redis_client method whose Redis command raises during a request.
NoFault == ""
ResolveFaults == {NoFault, "get_cached_user", "cache_user"}
AvatarFaults == ResolveFaults \cup {"invalidate_user_cache"}
RequestFaults == {NoFault, "cache_reset_token"}
ConfirmFaults == {NoFault, "invalidate_reset_token", "invalidate_user_cache"}
\* get_password_hash raises when passlib turns the password down (a NUL
\* byte, or more bytes than bcrypt takes).
HashFaults == {NoFault, "get_password_hash"}

\* ----------------------------------------------------------- POST /signup
\* crud.create_user as the route calls it: the uuid is drawn, then the row
\* is INSERTed and committed.  users.email carries a unique index, so the
\* commit of a row whose email is in the table raises IntegrityError, which
\* no handler catches.
signup_insert(email, password) ==
    IF get_user_by_email(email) # 0
    THEN [InternalServerError EXCEPT !.uuids = 1]
    ELSE [Outcome(201, "") EXCEPT
            !.users = create_user(email, password, nextUuid),
            !.uuids = 1,
            !.uid = Len(users) + 1,
            !.notify = nextUuid]

signup(email, password) ==
    LET db_user == get_user_by_email(email) IN
    IF db_user # 0
    THEN [Outcome(409, "Email already registered") EXCEPT !.uid = db_user]
    ELSE signup_insert(email, password)

\* ------------------------------------------------ GET /verifyemail/{token}
verify_email(token) ==
    LET user == UserByVerificationToken(token) IN
    IF user = 0
    THEN Outcome(404, "User not found or already verified")
    ELSE [Outcome(200, "") EXCEPT
            !.users = update_verification_status(user),
            !.uid = user]

\* ------------------------------------------ POST /resend-verification-email
resend_verification_email(email) ==
    LET user == get_user_by_email(email) IN
    IF user = 0
    THEN Outcome(404, "User not found")
    ELSE IF users[user].verified
    THEN [Outcome(400, "User already verified") EXCEPT !.uid = user]
    ELSE [Outcome(200, "Verification email resent") EXCEPT
            !.users = set_verification_token(user, nextUuid),
            !.uuids = 1,
            !.uid = user,
            !.notify = nextUuid]

\* ------------------------------------------------------------ POST /login
\* Mutant of login: user.verified is consulted before the password.
login_checks_verified_first(email, password) ==
    LET user == get_user_by_email(email) IN
    IF user = 0
    THEN Outcome(401, "Incorrect username or password")
    ELSE IF ~users[user].verified
    THEN [Outcome(401, "Please verify your email address") EXCEPT !.uid = user]
    ELSE IF ~verify_password(password, users[user].hashed_password)
    THEN Outcome(401, "Incorrect username or password")
    ELSE [Outcome(200, "bearer") EXCEPT
            !.uid = user,
            !.access_token =
                create_access_token(users[user].email,
                                    ACCESS_TOKEN_EXPIRE_MINUTES * 60)]

\* Mutant of login: the verified flag is not consulted.
login_skips_verified(email, password) ==
    LET user == get_user_by_email(email) IN
    IF user = 0 \/ ~verify_password(password, users[user].hashed_password)
    THEN Outcome(401, "Incorrect username or password")
    ELSE [Outcome(200, "bearer") EXCEPT
            !.uid = user,
            !.access_token =
                create_access_token(users[user].email,
                                    ACCESS_TOKEN_EXPIRE_MINUTES * 60)]

login(email, password) ==
    LET user == get_user_by_email(email) IN
    IF user = 0 \/ ~verify_password(password, users[user].hashed_password)
    THEN Outcome(401, "Incorrect username or password")
    ELSE IF ~users[user].verified
    THEN [Outcome(401, "Please verify your email address") EXCEPT !.uid = user]
    ELSE [Outcome(200, "bearer") EXCEPT
            !.uid = user,
            !.access_token =
                create_access_token(users[user].email,
                                    ACCESS_TOKEN_EXPIRE_MINUTES * 60)]

\* Mutant of create_password_reset_token: user.verified is not consulted.
create_password_reset_token_skips_verified(email, fault) ==
    LET user == get_user_by_email(email) IN
    IF user = 0
    THEN [raises |-> "ValueError", out |-> Outcome(0, "User not found")]
    ELSE LET committed ==
                 [Outcome(0, "") EXCEPT
                    !.users = [users EXCEPT ![user].reset_token = nextUuid],
                    !.uuids = 1,
                    !.uid = user] IN
         IF fault = "cache_reset_token"
         THEN [raises |-> "RedisError", out |-> committed]
         ELSE [raises |-> "",
               out |-> [committed EXCEPT
                          !.resetCache =
                              cache_reset_token(resetCache, email, nextUuid,
                                                RESET_TOKEN_TTL),
                          !.notify = nextUuid]]

\* Mutant of create_password_reset_token: an outstanding reset token is kept
\* in the row instead of being overwritten.
create_password_reset_token_keeps_outstanding(email, fault) ==
    LET user == get_user_by_email(email) IN
    IF user = 0
    THEN [raises |-> "ValueError", out |-> Outcome(0, "User not found")]
    ELSE IF ~users[user].verified
    THEN [raises |-> "ValueError",
          out |-> [Outcome(0, "User not verified") EXCEPT !.uid = user]]
    ELSE LET committed ==
                 [Outcome(0, "") EXCEPT
                    !.users = IF users[user].reset_token = NoToken
                              THEN [users EXCEPT ![user].reset_token = nextUuid]
                              ELSE users,
                    !.uuids = 1,
                    !.uid = user] IN
         IF fault = "cache_reset_token"
         THEN [raises |-> "RedisError", out |-> committed]
         ELSE [raises |-> "",
               out |-> [committed EXCEPT
                          !.resetCache =
                              cache_reset_token(resetCache, email, nextUuid,
                                                RESET_TOKEN_TTL),
                          !.notify = nextUuid]]

\* Mutant of create_password_reset_token: the token is cached before the
\* row is committed.
create_password_reset_token_caches_first(email, fault) ==
    LET user == get_user_by_email(email) IN
    IF user = 0
    THEN [raises |-> "ValueError", out |-> Outcome(0, "User not found")]
    ELSE IF ~users[user].verified
    THEN [raises |-> "ValueError",
          out |-> [Outcome(0, "User not verified") EXCEPT !.uid = user]]
    ELSE IF fault = "cache_reset_token"
    THEN [raises |-> "RedisError",
          out |-> [Outcome(0, "") EXCEPT !.uuids = 1, !.uid = user]]
    ELSE [raises |-> "",
          out |-> [Outcome(0, "") EXCEPT
                     !.users = [users EXCEPT ![user].reset_token = nextUuid],
                     !.uuids = 1,
                     !.uid = user,
                     !.resetCache =
                         cache_reset_token(resetCache, email, nextUuid,
                                           RESET_TOKEN_TTL),
                     !.notify = nextUuid]]

\* --------------------------------------- crud.create_password_reset_token
\* raises: the exception the call ends with ("" for a normal return, which
\* hands back notify).  The row is committed before the Redis call, so a
\* Redis error leaves the new token in the store.
create_password_reset_token(email, fault) ==
    LET user == get_user_by_email(email) IN
    IF user = 0
    THEN [raises |-> "ValueError", out |-> Outcome(0, "User not found")]
    ELSE IF ~users[user].verified
    THEN [raises |-> "ValueError",
          out |-> [Outcome(0, "User not verified") EXCEPT !.uid = user]]
    ELSE LET committed ==
                 [Outcome(0, "") EXCEPT
                    !.users = [users EXCEPT ![user].reset_token = nextUuid],
                    !.uuids = 1,
                    !.uid = user] IN
         IF fault = "cache_reset_token"
         THEN [raises |-> "RedisError", out |-> committed]
         ELSE [raises |-> "",
               out |-> [committed EXCEPT
                          !.resetCache =
                              cache_reset_token(resetCache, email, nextUuid,
                                                RESET_TOKEN_TTL),
                          !.notify = nextUuid]]

\* ------------------------------------------- POST /password-reset/request
request_password_reset(email, fault) ==
    LET r == create_password_reset_token(email, fault)
        sent == "If email exists, password reset link has been sent" IN
    IF r.raises = "RedisError"
    THEN [r.out EXCEPT !.status = InternalServerError.status,
                       !.detail = InternalServerError.detail]
    ELSE [r.out EXCEPT !.status = 200, !.detail = sent]

\* Mutant of reset_password: the identity snapshot is not invalidated.
reset_password_keeps_snapshot(token, new_password, fault) ==
    LET user == UserByResetToken(token) IN
    IF user = 0
    THEN [raises |-> "", result |-> FALSE, out |-> Outcome(0, "")]
    ELSE [raises |-> IF fault = NoFault THEN "" ELSE "RedisError",
          result |-> fault = NoFault,
          out |-> [Outcome(0, "") EXCEPT
                     !.users =
                        [users EXCEPT
                           ![user].hashed_password =
                               get_password_hash(new_password),
                           ![user].reset_token = NoToken],
                     !.resetCache =
                         IF fault = "invalidate_reset_token"
                         THEN resetCache
                         ELSE invalidate_reset_token(resetCache,
                                                     users[user].email),
                     !.uid = user]]

\* ------------------------------------------------------ crud.reset_password
\* result: the value returned; raises as above.
\* Mutant of reset_password: the reset token is cleared and committed before
\* the new password is hashed.
reset_password_clears_token_first(token, new_password, fault) ==
    LET user == UserByResetToken(token) IN
    IF user = 0
    THEN [raises |-> "", result |-> FALSE, out |-> Outcome(0, "")]
    ELSE IF fault = "get_password_hash"
    THEN [raises |-> "ValueError", result |-> FALSE,
          out |-> [Outcome(0, "") EXCEPT
                     !.users = [users EXCEPT ![user].reset_token = NoToken]]]
    ELSE [raises |-> "", result |-> TRUE,
          out |-> [Outcome(0, "") EXCEPT
                     !.users =
                        [users EXCEPT
                           ![user].hashed_password =
                               get_password_hash(new_password),
                           ![user].reset_token = NoToken],
                     !.uid = user,
                     !.resetCache =
                         invalidate_reset_token(resetCache, users[user].email),
                     !.userCache = invalidate_user_cache(userCache, user)]]

\* Mutant of reset_password_with: the token must also be the one mirrored in
\* Redis under the email of the row.
reset_password_with_requires_mirror(cache, token, new_password, fault) ==
    LET user == UserByResetToken(token)
        base == [Outcome(0, "") EXCEPT !.resetCache = cache] IN
    IF user = 0 \/ get_reset_token(cache, users[user].email) # {token}
    THEN [raises |-> "", result |-> FALSE, out |-> base]
    ELSE [raises |-> "", result |-> TRUE,
          out |-> [base EXCEPT
                     !.users =
                        [users EXCEPT
                           ![user].hashed_password =
                               get_password_hash(new_password),
                           ![user].reset_token = NoToken],
                     !.uid = user,
                     !.resetCache =
                         invalidate_reset_token(cache, users[user].email),
                     !.userCache = invalidate_user_cache(userCache, user)]]

\* reset_password with the reset tokens Redis holds as a parameter.
\* A call of get_password_hash that raises leaves the function before any
\* attribute of the row is assigned: nothing is committed (uid stays 0).
reset_password_with(cache, token, new_password, fault) ==
    LET user == UserByResetToken(token)
        base == [Outcome(0, "") EXCEPT !.resetCache = cache] IN
    IF user = 0
    THEN [raises |-> "", result |-> FALSE, out |-> base]
    ELSE IF fault = "get_password_hash"
    THEN [raises |-> "ValueError", result |-> FALSE, out |-> base]
    ELSE LET committed ==
                 [base EXCEPT
                    !.users =
                       [users EXCEPT
                          ![user].hashed_password =
                              get_password_hash(new_password),
                          ![user].reset_token = NoToken],
                    !.uid = user]
             tokenGone ==
                 [committed EXCEPT
                    !.resetCache =
                        invalidate_reset_token(cache, users[user].email)]
         IN
         IF fault = "invalidate_reset_token"
         THEN [raises |-> "RedisError", result |-> FALSE, out |-> committed]
         ELSE IF fault = "invalidate_user_cache"
         THEN [raises |-> "RedisError", result |-> FALSE, out |-> tokenGone]
         ELSE [raises |-> "", result |-> TRUE,
               out |-> [tokenGone EXCEPT
                          !.userCache =
                              invalidate_user_cache(userCache, user)]]

reset_password(token, new_password, fault) ==
    reset_password_with(resetCache, token, new_password, fault)

\* The reply confirm_password_reset makes of what reset_password did.
confirm_password_reset_reply(r) ==
    IF r.raises # ""
    THEN [r.out EXCEPT !.status = InternalServerError.status,
                       !.detail = InternalServerError.detail]
    ELSE IF ~r.result
    THEN [r.out EXCEPT !.status = 400,
                       !.detail = "Invalid or expired reset token"]
    ELSE [r.out EXCEPT !.status = 200,
                       !.detail = "Password reset successfully"]

\* Mutant of confirm_password_reset: the value reset_password returns is not
\* consulted.
confirm_password_reset_ignores_result(token, new_password, fault) ==
    LET r == reset_password(token, new_password, fault) IN
    IF r.raises # ""
    THEN [r.out EXCEPT !.status = InternalServerError.status,
                       !.detail = InternalServerError.detail]
    ELSE [r.out EXCEPT !.status = 200,
                       !.detail = "Password reset successfully"]

\* ------------------------------------------- POST /password-reset/confirm
confirm_password_reset(token, new_password, fault) ==
    confirm_password_reset_reply(reset_password(token, new_password, fault))

\* Mutant of get_current_user: the snapshot is written on a hit as well.
get_current_user_always_writes(token, fault) ==
    LET user == get_user_by_email(token.sub) IN
    IF ~JwtDecodeOk(token, SECRET_KEY) \/ token.sub = NoSub \/ user = 0
    THEN Outcome(401, "Could not validate credentials")
    ELSE IF fault \in {"get_cached_user", "cache_user"}
    THEN [InternalServerError EXCEPT !.uid = user]
    ELSE [Outcome(0, "") EXCEPT
            !.uid = user,
            !.userCache =
                cache_user(userCache, user,
                           [id       |-> user,
                            email    |-> users[user].email,
                            avatar   |-> users[user].avatar,
                            verified |-> users[user].verified,
                            role     |-> users[user].role])]

\* Mutant of get_current_user: the cache is read before the token and the
\* store are consulted.
get_current_user_reads_cache_first(token, fault) ==
    LET user == get_user_by_email(token.sub) IN
    IF fault = "get_cached_user"
    THEN [InternalServerError EXCEPT !.uid = user]
    ELSE IF ~JwtDecodeOk(token, SECRET_KEY) \/ token.sub = NoSub \/ user = 0
    THEN Outcome(401, "Could not validate credentials")
    ELSE IF get_cached_user(userCache, user) # {}
    THEN [Outcome(0, "") EXCEPT !.uid = user]
    ELSE IF fault = "cache_user"
    THEN [InternalServerError EXCEPT !.uid = user]
    ELSE [Outcome(0, "") EXCEPT
            !.uid = user,
            !.userCache =
                cache_user(userCache, user,
                           [id       |-> user,
                            email    |-> users[user].email,
                            avatar   |-> users[user].avatar,
                            verified |-> users[user].verified,
                            role     |-> users[user].role])]

\* ---------------------------------------------------- auth.get_current_user
\* Mutant of get_current_user_with: on a hit the identity returned is made
\* from the cached snapshot.
get_current_user_with_trusts_cache(cache, token, fault) ==
    LET user == get_user_by_email(token.sub)
        hit == get_cached_user(cache, user) IN
    IF ~JwtDecodeOk(token, SECRET_KEY) \/ token.sub = NoSub \/ user = 0
    THEN [Outcome(401, "Could not validate credentials") EXCEPT
            !.userCache = cache]
    ELSE IF hit # {}
    THEN [Outcome(0, "") EXCEPT
            !.uid = user,
            !.identity = {[users[user] EXCEPT
                             !.avatar = snapshot.avatar,
                             !.verified = snapshot.verified,
                             !.role = snapshot.role] : snapshot \in hit},
            !.userCache = cache]
    ELSE [Outcome(0, "") EXCEPT
            !.uid = user,
            !.identity = {users[user]},
            !.userCache =
                cache_user(cache, user,
                           [id       |-> user,
                            email    |-> users[user].email,
                            avatar   |-> users[user].avatar,
                            verified |-> users[user].verified,
                            role     |-> users[user].role])]

\* get_current_user against the Redis contents cache.  status 0: the users
\* row uid is returned to the route (identity); otherwise the HTTP error
\* raised.  uid is the row found in the store, also when a later Redis call
\* raises.
get_current_user_with(cache, token, fault) ==
    LET user == get_user_by_email(token.sub) IN
    IF ~JwtDecodeOk(token, SECRET_KEY) \/ token.sub = NoSub \/ user = 0
    THEN [Outcome(401, "Could not validate credentials") EXCEPT
            !.userCache = cache]
    ELSE IF fault = "get_cached_user"
    THEN [InternalServerError EXCEPT !.uid = user, !.userCache = cache]
    ELSE IF get_cached_user(cache, user) # {}
    THEN [Outcome(0, "") EXCEPT
            !.uid = user, !.identity = {users[user]}, !.userCache = cache]
    ELSE IF fault = "cache_user"
    THEN [InternalServerError EXCEPT !.uid = user, !.userCache = cache]
    ELSE LET user_dict == [id       |-> user,
                           email    |-> users[user].email,
                           avatar   |-> users[user].avatar,
                           verified |-> users[user].verified,
                           role     |-> users[user].role] IN
         [Outcome(0, "") EXCEPT
            !.uid = user,
            !.identity = {users[user]},
            !.userCache = cache_user(cache, user, user_dict)]

\* get_current_user against the Redis of the current state.
get_current_user(token, fault) == get_current_user_with(userCache, token, fault)

\* -------------------------------------------------------- auth.require_admin
require_admin(current_user) == users[current_user].role = "admin"

\* --------------------------------------------------------- GET /users/me/
\* rateLimited: the limiter ("10/minute") turns the request down after the
\* dependency has resolved the caller.
read_users_me(token, fault, rateLimited) ==
    LET cu == get_current_user(token, fault) IN
    IF cu.status # 0 THEN cu
    ELSE IF rateLimited
    THEN [cu EXCEPT !.status = 429, !.detail = "Rate limit exceeded"]
    ELSE [cu EXCEPT !.status = 200]

\* Mutant of update_avatar_user: the identity snapshot is not invalidated.
update_avatar_user_keeps_snapshot(token, fault, upload) ==
    LET cu == get_current_user(token, fault) IN
    IF cu.status # 0 THEN cu
    ELSE IF ~require_admin(cu.uid)
    THEN [cu EXCEPT !.status = 403, !.detail = "Admin access required"]
    ELSE IF upload = NoAvatar
    THEN [cu EXCEPT !.status = InternalServerError.status,
                    !.detail = InternalServerError.detail]
    ELSE [cu EXCEPT !.users = update_avatar(cu.uid, upload),
                    !.status = 200,
                    !.detail = upload]

\* Mutant of update_avatar_user: the snapshot is invalidated before the
\* upload.
update_avatar_user_invalidates_first(token, fault, upload) ==
    LET cu == get_current_user(token, fault) IN
    IF cu.status # 0 THEN cu
    ELSE IF ~require_admin(cu.uid)
    THEN [cu EXCEPT !.status = 403, !.detail = "Admin access required"]
    ELSE IF upload = NoAvatar
    THEN [cu EXCEPT !.status = InternalServerError.status,
                    !.detail = InternalServerError.detail,
                    !.userCache = invalidate_user_cache(cu.userCache, cu.uid)]
    ELSE [cu EXCEPT !.users = update_avatar(cu.uid, upload),
                    !.status = 200,
                    !.detail = upload,
                    !.userCache = invalidate_user_cache(cu.userCache, cu.uid)]

\* ------------------------------------------------------ PATCH /users/avatar
\* upload is the URL the media host returns, or NoAvatar when the upload
\* raises: nothing catches the exception of cloudinary.uploader.upload, and
\* the server answers 500.
update_avatar_user(token, fault, upload) ==
    LET cu == get_current_user(token, fault) IN
    IF cu.status # 0 THEN cu
    ELSE IF ~require_admin(cu.uid)
    THEN [cu EXCEPT !.status = 403, !.detail = "Admin access required"]
    ELSE IF upload = NoAvatar
    THEN [cu EXCEPT !.status = InternalServerError.status,
                    !.detail = InternalServerError.detail]
    ELSE LET committed == [cu EXCEPT !.users = update_avatar(cu.uid, upload)]
         IN
         IF fault = "invalidate_user_cache"
         THEN [committed EXCEPT !.status = InternalServerError.status,
                                !.detail = InternalServerError.detail]
         ELSE [committed EXCEPT
                 !.status = 200,
                 !.detail = upload,
                 !.userCache = invalidate_user_cache(cu.userCache, cu.uid)]

\* ---------------------------------------------------- /contacts/ routes
\* Every contacts route depends on get_current_user and runs its crud call
\* with user_id = current_user.id.  The contacts table is not part of this
\* model: the outcome is the caller resolved (uid) and what the resolution
\* did to the cache.
contact_operation(token, fault) ==
    LET cu == get_current_user(token, fault) IN
    IF cu.status # 0 THEN cu
    ELSE [cu EXCEPT !.status = 200]

\* Mutant of read_contact: the row is looked up by its id alone.
read_contact_any_owner(token, fault, contact_id) ==
    LET cu == get_current_user(token, fault)
        db_contact == {c \in contacts : c.id = contact_id} IN
    IF cu.status # 0 THEN cu
    ELSE IF db_contact = {}
    THEN [cu EXCEPT !.status = 404, !.detail = "Contact not found"]
    ELSE [cu EXCEPT !.status = 200, !.body = db_contact]

\* ------------------------------------------------------- POST /contacts/
\* The INSERT draws the next id of the sequence, also when the unique index
\* on contacts.email turns the row down (IntegrityError, not caught).
create_contact_route(token, fault, contact) ==
    LET cu == get_current_user(token, fault) IN
    IF cu.status # 0 THEN cu
    ELSE IF ContactEmailTaken(nextContactId, contact.email)
    THEN [cu EXCEPT !.status = InternalServerError.status,
                    !.detail = InternalServerError.detail,
                    !.cids = 1]
    ELSE [cu EXCEPT !.status = 201,
                    !.cids = 1,
                    !.contacts = create_contact(contact, cu.uid),
                    !.body = {Contact(nextContactId, contact, cu.uid)}]

\* -------------------------------------------------------- GET /contacts/
\* page is the page the query returns, one of get_contacts(...).
read_contacts(token, fault, skip, limit, page) ==
    LET cu == get_current_user(token, fault) IN
    IF cu.status # 0 THEN cu
    ELSE [cu EXCEPT !.status = 200, !.body = page]

\* -------------------------------------------------- GET /contacts/search
search_contacts_route(token, fault, query) ==
    LET cu == get_current_user(token, fault) IN
    IF cu.status # 0 THEN cu
    ELSE [cu EXCEPT !.status = 200, !.body = search_contacts(query, cu.uid)]

\* ----------------------------------------------- GET /contacts/birthdays
get_birthdays_route(token, fault) ==
    LET cu == get_current_user(token, fault) IN
    IF cu.status # 0 THEN cu
    ELSE [cu EXCEPT !.status = 200, !.body = get_birthdays(cu.uid)]

\* -------------------------------------------- GET /contacts/{contact_id}
read_contact(token, fault, contact_id) ==
    LET cu == get_current_user(token, fault)
        db_contact == get_contact(contact_id, cu.uid) IN
    IF cu.status # 0 THEN cu
    ELSE IF db_contact = {}
    THEN [cu EXCEPT !.status = 404, !.detail = "Contact not found"]
    ELSE [cu EXCEPT !.status = 200, !.body = db_contact]

\* -------------------------------------------- PUT /contacts/{contact_id}
\* The UPDATE is turned down by the unique index on contacts.email when
\* another row holds the new email (IntegrityError, not caught).
update_contact_route(token, fault, contact_id, contact) ==
    LET cu == get_current_user(token, fault)
        db_contact == get_contact(contact_id, cu.uid) IN
    IF cu.status # 0 THEN cu
    ELSE IF db_contact = {}
    THEN [cu EXCEPT !.status = 404, !.detail = "Contact not found"]
    ELSE IF ContactEmailTaken(contact_id, contact.email)
    THEN [cu EXCEPT !.status = InternalServerError.status,
                    !.detail = InternalServerError.detail]
    ELSE [cu EXCEPT !.status = 200,
                    !.contacts = update_contact(contact_id, contact, cu.uid),
                    !.body = {Contact(contact_id, contact, cu.uid)}]

\* ----------------------------------------- DELETE /contacts/{contact_id}
delete_contact_route(token, fault, contact_id) ==
    LET cu == get_current_user(token, fault)
        db_contact == get_contact(contact_id, cu.uid) IN
    IF cu.status # 0 THEN cu
    ELSE IF db_contact = {}
    THEN [cu EXCEPT !.status = 404, !.detail = "Contact not found"]
    ELSE [cu EXCEPT !.status = 200,
                    !.contacts = delete_contact(contact_id, cu.uid),
                    !.body = db_contact]

\* ------------------------------------------------------------------- Init
\* The users table holds the administrator account: signed up and verified,
\* then given the admin role directly in the database (no route creates an
\* admin or changes a role).
AdminSeed ==
    [User(AdminEmail, get_password_hash("pw1"), NoToken)
        EXCEPT !.verified = TRUE, !.role = "admin"]

NoHistory ==
    [verified |-> {}, replaced |-> {}, handed |-> {}, superseded |-> {},
     reset |-> {}]

Init ==
    /\ users = <<AdminSeed>>
    /\ userCache = <<>>
    /\ resetCache = <<>>
    /\ now = 0
    /\ nextUuid = 1
    /\ bearer = [e \in Emails |-> NoBearer]
    /\ history = NoHistory
    /\ pending = [e \in Emails |-> 0]
    /\ contacts = {}
    /\ nextContactId = 1
    /\ resolving = {}
    /\ updating = {}
    /\ resetting = {}
    /\ resending = {}
    /\ awaiting = {}
    /\ redisAnswers = TRUE

\* ---------------------------------------------------------------- actions
\* The request is served: its outcome becomes the state.  A request that
\* draws a uuid is served only while the uuid space lasts.
Serve(r) ==
    /\ nextUuid + r.uuids <= MaxTokens + 1
    /\ users' = r.users
    /\ userCache' = r.userCache
    /\ resetCache' = r.resetCache
    /\ nextUuid' = nextUuid + r.uuids
    /\ now' = now

Signup(email, password) ==
    /\ Serve(signup(email, password))
    /\ UNCHANGED <<bearer, history, pending, contactVars, raceVars>>

\* A signup whose lookup found no row for the email and whose INSERT is
\* still to come.  pending counts them by email; the password of a request is
\* not read before the INSERT and is bound there.
SignupLookup(email) ==
    /\ get_user_by_email(email) = 0
    /\ pending[email] < MaxInFlight
    /\ pending' = [pending EXCEPT ![email] = @ + 1]
    /\ UNCHANGED <<users, userCache, resetCache, now, nextUuid, bearer,
                   history, contactVars, raceVars>>

\* The INSERT of a signup whose lookup ran earlier.
SignupInsert(email, password) ==
    /\ pending[email] > 0
    /\ Serve(signup_insert(email, password))
    /\ pending' = [pending EXCEPT ![email] = @ - 1]
    /\ UNCHANGED <<bearer, history, contactVars, raceVars>>

\* history.verified: the verification tokens redeemed so far.
VerifyEmail(token) ==
    LET r == verify_email(token) IN
    /\ Serve(r)
    /\ history' = IF r.status = 200
                  THEN [history EXCEPT !.verified = @ \cup {token}]
                  ELSE history
    /\ UNCHANGED <<bearer, pending, contactVars, raceVars>>

\* history.replaced: the verification tokens overwritten by a newer one.
ResendVerificationEmail(email) ==
    LET r == resend_verification_email(email) IN
    /\ Serve(r)
    /\ history' = IF r.status = 200
                  THEN [history EXCEPT !.replaced =
                          @ \cup ({users[r.uid].verification_token}
                                     \ {NoToken})]
                  ELSE history
    /\ UNCHANGED <<bearer, pending, contactVars, raceVars>>

\* bearer[email]: the token the account's client got from its last login.
Login(email, password) ==
    LET r == login(email, password) IN
    /\ Serve(r)
    /\ bearer' = IF r.status = 200
                 THEN [bearer EXCEPT ![email] = r.access_token]
                 ELSE bearer
    /\ UNCHANGED <<history, pending, contactVars, raceVars>>

\* history.handed: the reset tokens handed to the notifier;
\* history.superseded: the reset tokens overwritten by a newer one.
RequestPasswordReset(email, fault) ==
    LET r == request_password_reset(email, fault) IN
    /\ Serve(r)
    /\ history' = IF r.uuids = 1
                  THEN [history EXCEPT
                          !.superseded =
                              @ \cup ({users[r.uid].reset_token} \ {NoToken}),
                          !.handed = @ \cup ({r.notify} \ {NoToken})]
                  ELSE history
    /\ UNCHANGED <<bearer, pending, contactVars, raceVars>>

\* history.reset: the reset tokens redeemed so far (the store committed).
ConfirmPasswordReset(token, new_password, fault) ==
    LET r == confirm_password_reset(token, new_password, fault) IN
    /\ Serve(r)
    /\ history' = IF r.uid # 0
                  THEN [history EXCEPT !.reset = @ \cup {token}]
                  ELSE history
    /\ UNCHANGED <<bearer, pending, contactVars, raceVars>>

ReadUsersMe(token, fault, rateLimited) ==
    /\ Serve(read_users_me(token, fault, rateLimited))
    /\ UNCHANGED <<bearer, history, pending, contactVars, raceVars>>

UpdateAvatarUser(token, fault, upload) ==
    /\ Serve(update_avatar_user(token, fault, upload))
    /\ UNCHANGED <<bearer, history, pending, contactVars, raceVars>>

ContactOperation(token, fault) ==
    /\ Serve(contact_operation(token, fault))
    /\ UNCHANGED <<bearer, history, pending, contactVars, raceVars>>

\* A contacts request is served: as Serve, and its outcome becomes the
\* contacts table.  A request that draws a contact id is served only while
\* the id space lasts.
ServeContacts(r) ==
    /\ Serve(r)
    /\ nextContactId + r.cids <= MaxContacts + 1
    /\ contacts' = r.contacts
    /\ nextContactId' = nextContactId + r.cids
    /\ UNCHANGED <<bearer, history, pending, raceVars>>

CreateContact(token, fault, contact) ==
    ServeContacts(create_contact_route(token, fault, contact))

ReadContacts(token, fault, skip, limit) ==
    \E page \in get_contacts(get_current_user(token, fault).uid, skip, limit) :
        ServeContacts(read_contacts(token, fault, skip, limit, page))

SearchContacts(token, fault, query) ==
    ServeContacts(search_contacts_route(token, fault, query))

GetBirthdays(token, fault) ==
    ServeContacts(get_birthdays_route(token, fault))

ReadContact(token, fault, contact_id) ==
    ServeContacts(read_contact(token, fault, contact_id))

UpdateContact(token, fault, contact_id, contact) ==
    ServeContacts(update_contact_route(token, fault, contact_id, contact))

DeleteContact(token, fault, contact_id) ==
    ServeContacts(delete_contact_route(token, fault, contact_id))

\* Time passes; Redis drops the keys whose expiry has been reached.
Live(cache, t) == [k \in {x \in DOMAIN cache : t < cache[x].exp} |-> cache[k]]

Tick ==
    /\ now + TickStep <= MaxTicks * TickStep
    /\ now' = now + TickStep
    /\ userCache' = Live(userCache, now + TickStep)
    /\ resetCache' = Live(resetCache, now + TickStep)
    /\ UNCHANGED <<users, nextUuid, bearer, history, pending, contactVars, raceVars>>

\* Bearer tokens a client can present: those /login handed out, and one
\* that was not signed with the server's key.
ForgedToken == [sub |-> AdminEmail, exp |-> 1000000, sig |-> "forged"]
Bearers == ({bearer[e] : e \in Emails} \ {NoBearer}) \cup {ForgedToken}

Next ==
    \/ \E email \in Emails, password \in SignupPasswords :
          Signup(email, password)
    \/ \E token \in UuidSpace : VerifyEmail(token)
    \/ \E email \in Emails : ResendVerificationEmail(email)
    \/ \E email \in Emails, password \in Passwords : Login(email, password)
    \/ \E email \in Emails, fault \in RequestFaults :
          RequestPasswordReset(email, fault)
    \/ \E token \in UuidSpace, password \in Passwords,
          fault \in ConfirmFaults \cup HashFaults :
          ConfirmPasswordReset(token, password, fault)
    \/ \E token \in Bearers, fault \in ResolveFaults, rateLimited \in BOOLEAN :
          ReadUsersMe(token, fault, rateLimited)
    \/ \E token \in Bearers, fault \in AvatarFaults,
          upload \in Urls \cup {NoAvatar} :
          UpdateAvatarUser(token, fault, upload)
    \/ \E token \in Bearers, fault \in ResolveFaults :
          ContactOperation(token, fault)
    \/ Tick

Spec == Init /\ [][Next]_vars

\* The same system, requests served one after another, under a second name:
\* the claims on what a request depends on and on what it touches are
\* verified against SpecRequests.
SpecRequests == Init /\ [][Next]_vars

\* Requests served concurrently: as Next, and a signup may run its lookup
\* and its INSERT as two steps with other requests between them.
NextInterleaved ==
    \/ Next
    \/ \E email \in Emails : SignupLookup(email)
    \/ \E email \in Emails, password \in SignupPasswords :
          SignupInsert(email, password)

SpecInterleaved == Init /\ [][NextInterleaved]_vars

\* The contacts routes, with the routes that give a client its bearer token.
NextContacts ==
    \/ \E email \in Emails, password \in Passwords : Signup(email, password)
    \/ \E token \in UuidSpace : VerifyEmail(token)
    \/ \E email \in Emails, password \in Passwords : Login(email, password)
    \/ \E token \in Bearers, fault \in ResolveFaults,
          contact \in ContactCreates :
          CreateContact(token, fault, contact)
    \/ \E token \in Bearers, fault \in ResolveFaults,
          skip \in Skips, limit \in Limits :
          ReadContacts(token, fault, skip, limit)
    \/ \E token \in Bearers, fault \in ResolveFaults, query \in Queries :
          SearchContacts(token, fault, query)
    \/ \E token \in Bearers, fault \in ResolveFaults :
          GetBirthdays(token, fault)
    \/ \E token \in Bearers, fault \in ResolveFaults,
          contact_id \in ContactIds :
          ReadContact(token, fault, contact_id)
    \/ \E token \in Bearers, fault \in ResolveFaults,
          contact_id \in ContactIds, contact \in ContactCreates :
          UpdateContact(token, fault, contact_id, contact)
    \/ \E token \in Bearers, fault \in ResolveFaults,
          contact_id \in ContactIds :
          DeleteContact(token, fault, contact_id)

SpecContacts == Init /\ [][NextContacts]_vars

\* The clock in steps of the shortest token lifetime, so that a token is
\* presented before, at and after its expiry instant.
ClockStep == DEFAULT_EXPIRE_MINUTES * 60

ClockTick ==
    /\ now + ClockStep <= MaxTicks * TickStep
    /\ now' = now + ClockStep
    /\ userCache' = Live(userCache, now + ClockStep)
    /\ resetCache' = Live(resetCache, now + ClockStep)
    /\ UNCHANGED <<users, nextUuid, bearer, history, pending, contactVars,
                   raceVars>>

\* The routes that issue and accept bearer tokens, under the finer clock.
NextClock ==
    \/ \E email \in Emails, password \in Passwords : Signup(email, password)
    \/ \E token \in UuidSpace : VerifyEmail(token)
    \/ \E email \in Emails, password \in Passwords : Login(email, password)
    \/ \E token \in Bearers, fault \in ResolveFaults, rateLimited \in BOOLEAN :
          ReadUsersMe(token, fault, rateLimited)
    \/ ClockTick

SpecClock == Init /\ [][NextClock]_vars

\* ----------------------------------------- requests served concurrently
\* get_current_user in two steps.  First step: the token is decoded, the row
\* is read and GET user:<id> misses; resolving holds the projection of the
\* row as it was read.  (A resolution that fails or hits the cache has no
\* second step: it is ReadUsersMe.)
ResolveRead(token) ==
    LET user == get_user_by_email(token.sub) IN
    /\ Cardinality(resolving) < MaxInFlight
    /\ JwtDecodeOk(token, SECRET_KEY)
    /\ token.sub # NoSub
    /\ user # 0
    /\ get_cached_user(userCache, user) = {}
    /\ resolving' = resolving \cup
                       {[uid |-> user,
                         user_dict |-> [id       |-> user,
                                        email    |-> users[user].email,
                                        avatar   |-> users[user].avatar,
                                        verified |-> users[user].verified,
                                        role     |-> users[user].role]]}
    /\ UNCHANGED <<users, userCache, resetCache, now, nextUuid, bearer,
                   history, pending, contactVars, updating, resetting, resending,
                   cacheVars>>

\* Second step: SETEX user:<id> with the projection read in the first step.
ResolveWrite(p) ==
    /\ p \in resolving
    /\ userCache' = cache_user(userCache, p.uid, p.user_dict)
    /\ resolving' = resolving \ {p}
    /\ UNCHANGED <<users, resetCache, now, nextUuid, bearer, history,
                   pending, contactVars, updating, resetting, resending,
                   cacheVars>>

\* PATCH /users/avatar in two steps.  First step: the caller is resolved,
\* the file is uploaded and crud.update_avatar commits the URL; updating
\* holds the id whose invalidation is still to come.
AvatarCommit(token, upload) ==
    LET cu == get_current_user(token, NoFault) IN
    /\ cu.status = 0
    /\ require_admin(cu.uid)
    /\ cu.uid \notin updating
    /\ users' = update_avatar(cu.uid, upload)
    /\ userCache' = cu.userCache
    /\ updating' = updating \cup {cu.uid}
    /\ UNCHANGED <<resetCache, now, nextUuid, bearer, history, pending,
                   contactVars, resolving, resetting, resending,
                   cacheVars>>

\* Second step: redis_client.invalidate_user_cache(current_user.id).
AvatarInvalidate(uid) ==
    /\ uid \in updating
    /\ userCache' = invalidate_user_cache(userCache, uid)
    /\ updating' = updating \ {uid}
    /\ UNCHANGED <<users, resetCache, now, nextUuid, bearer, history,
                   pending, contactVars, resolving, resetting, resending,
                   cacheVars>>

\* Avatar updates and resolutions of the caller under any interleaving of
\* their steps; no Redis command fails.
NextAvatarRace ==
    \/ \E email \in Emails, password \in Passwords : Signup(email, password)
    \/ \E token \in UuidSpace : VerifyEmail(token)
    \/ \E email \in Emails, password \in Passwords : Login(email, password)
    \/ \E token \in Bearers, rateLimited \in BOOLEAN :
          ReadUsersMe(token, NoFault, rateLimited)
    \/ \E token \in Bearers, upload \in Urls \cup {NoAvatar} :
          UpdateAvatarUser(token, NoFault, upload)
    \/ \E token \in Bearers : ResolveRead(token)
    \/ \E p \in resolving : ResolveWrite(p)
    \/ \E token \in Bearers, upload \in Urls : AvatarCommit(token, upload)
    \/ \E uid \in updating : AvatarInvalidate(uid)
    \/ Tick

SpecAvatarRace == Init /\ [][NextAvatarRace]_vars

\* POST /password-reset/confirm in two steps.  First step: the SELECT of
\* reset_password finds the row that holds the token; resetting holds the
\* request with the row it found (answered 0: not answered yet).
ResetLookup(token, new_password) ==
    LET user == UserByResetToken(token) IN
    /\ Cardinality(resetting) < MaxInFlight
    /\ user # 0
    /\ resetting' = resetting \cup
                       {[uid |-> user, token |-> token,
                         new_password |-> new_password, answered |-> 0]}
    /\ UNCHANGED <<users, userCache, resetCache, now, nextUuid, bearer,
                   history, pending, contactVars, resolving, updating, resending,
                   cacheVars>>

\* Second step: the row found is written by its primary key (new hash, no
\* reset token) and committed, the two cache keys are deleted, and the
\* request is answered 200.
ResetCommit(p) ==
    /\ p \in resetting
    /\ p.answered = 0
    /\ users' = [users EXCEPT
                   ![p.uid].hashed_password =
                       get_password_hash(p.new_password),
                   ![p.uid].reset_token = NoToken]
    /\ resetCache' = invalidate_reset_token(resetCache, users[p.uid].email)
    /\ userCache' = invalidate_user_cache(userCache, p.uid)
    /\ resetting' = (resetting \ {p}) \cup {[p EXCEPT !.answered = 200]}
    /\ UNCHANGED <<now, nextUuid, bearer, history, pending, contactVars,
                   resolving, updating, resending,
                   cacheVars>>

\* Password resets under any interleaving of the steps of their
\* confirmations; no Redis command fails.
NextResetRace ==
    \/ \E email \in Emails, password \in Passwords : Signup(email, password)
    \/ \E token \in UuidSpace : VerifyEmail(token)
    \/ \E email \in Emails, password \in Passwords : Login(email, password)
    \/ \E email \in Emails : RequestPasswordReset(email, NoFault)
    \/ \E token \in UuidSpace, password \in Passwords :
          ConfirmPasswordReset(token, password, NoFault)
    \/ \E token \in UuidSpace, password \in Passwords :
          ResetLookup(token, password)
    \/ \E p \in resetting : ResetCommit(p)

SpecResetRace == Init /\ [][NextResetRace]_vars

\* POST /resend-verification-email/ in two steps.  First step: the row of
\* the email is read and is not verified; resending holds its id.
ResendLookup(email) ==
    LET user == get_user_by_email(email) IN
    /\ Cardinality(resending) < MaxInFlight
    /\ user # 0
    /\ ~users[user].verified
    /\ resending' = resending \cup {user}
    /\ UNCHANGED <<users, userCache, resetCache, now, nextUuid, bearer,
                   history, pending, contactVars, resolving, updating,
                   resetting,
                   cacheVars>>

\* Second step: crud.set_verification_token writes a new uuid to the row
\* read in the first step (UPDATE by primary key of the one column
\* assigned) and commits.
ResendAssign(user) ==
    /\ user \in resending
    /\ nextUuid <= MaxTokens
    /\ users' = set_verification_token(user, nextUuid)
    /\ nextUuid' = nextUuid + 1
    /\ resending' = resending \ {user}
    /\ history' = [history EXCEPT !.replaced =
                      @ \cup ({users[user].verification_token} \ {NoToken})]
    /\ UNCHANGED <<userCache, resetCache, now, bearer, pending, contactVars,
                   resolving, updating, resetting,
                   cacheVars>>

\* Verification under any interleaving of the steps of a resend with the
\* other requests.
NextVerifyRace ==
    \/ \E email \in Emails, password \in Passwords : Signup(email, password)
    \/ \E token \in UuidSpace : VerifyEmail(token)
    \/ \E email \in Emails : ResendVerificationEmail(email)
    \/ \E email \in Emails, password \in Passwords : Login(email, password)
    \/ \E token \in Bearers, rateLimited \in BOOLEAN :
          ReadUsersMe(token, NoFault, rateLimited)
    \/ \E email \in Emails : ResendLookup(email)
    \/ \E user \in resending : ResendAssign(user)
    \/ Tick

SpecVerifyRace == Init /\ [][NextVerifyRace]_vars

\* ------------------------------------------ requests waiting for Redis
\* redis.from_url(redis_url, decode_responses=True) sets no socket_timeout
\* and no socket_connect_timeout: a Redis command returns when the service
\* answers, and no step of the client ends the wait otherwise.  A request
\* that has sent its first Redis command is in awaiting until the service
\* answers; it then runs to its end.
CoreOps ==
    {"get_current_user", "request_password_reset", "confirm_password_reset",
     "update_avatar_user"}

\* A waiting request: the operation, the users row it works on and, for a
\* reset request, the token it committed.
Requests ==
    [op : CoreOps, uid : 1..Cardinality(Emails), val : {NoToken} \cup UuidSpace]

Wait(req) ==
    /\ Cardinality(awaiting) < MaxInFlight
    /\ req \notin awaiting
    /\ awaiting' = awaiting \cup {req}
    /\ UNCHANGED <<bearer, pending, contactVars, resolving, updating,
                   resetting, resending, redisAnswers>>

\* get_current_user has decoded the token and found the row, and sends
\* GET user:<id>; op tells whether the route is the avatar update (the
\* caller must be an administrator for the request to go on after the
\* resolution) or another authenticated route.
BeginResolve(token, op) ==
    LET user == get_user_by_email(token.sub) IN
    /\ JwtDecodeOk(token, SECRET_KEY)
    /\ token.sub # NoSub
    /\ user # 0
    /\ op = "update_avatar_user" => require_admin(user)
    /\ Wait([op |-> op, uid |-> user, val |-> NoToken])
    /\ UNCHANGED <<users, userCache, resetCache, now, nextUuid, history>>

\* create_password_reset_token has committed the new token and sends
\* SETEX reset_token:<email>.
BeginRequestReset(email) ==
    LET r == create_password_reset_token(email, "cache_reset_token") IN
    /\ r.raises = "RedisError"
    /\ Serve(r.out)
    /\ history' = [history EXCEPT
                     !.superseded =
                         @ \cup ({users[r.out.uid].reset_token} \ {NoToken})]
    /\ Wait([op |-> "request_password_reset", uid |-> r.out.uid,
             val |-> nextUuid])

\* reset_password has committed the new hash and sends DEL
\* reset_token:<email>.
BeginConfirmReset(token, new_password) ==
    LET r == reset_password(token, new_password, "invalidate_reset_token") IN
    /\ r.raises = "RedisError"
    /\ Serve(r.out)
    /\ history' = [history EXCEPT !.reset = @ \cup {token}]
    /\ Wait([op |-> "confirm_password_reset", uid |-> r.out.uid,
             val |-> NoToken])

\* The service answers the command of a waiting request, and the request
\* runs to its end (its later Redis commands are answered as well).  upload
\* is what the media host returns to an avatar update.
RedisAnswer(req, upload) ==
    LET resolved ==
            IF get_cached_user(userCache, req.uid) # {} THEN userCache
            ELSE cache_user(userCache, req.uid,
                            [id       |-> req.uid,
                             email    |-> users[req.uid].email,
                             avatar   |-> users[req.uid].avatar,
                             verified |-> users[req.uid].verified,
                             role     |-> users[req.uid].role])
        email == users[req.uid].email
    IN
    /\ req \in awaiting
    /\ redisAnswers
    /\ awaiting' = awaiting \ {req}
    /\ users' = IF req.op = "update_avatar_user" /\ upload # NoAvatar
                THEN update_avatar(req.uid, upload) ELSE users
    /\ userCache' =
          CASE req.op = "get_current_user" -> resolved
            [] req.op = "update_avatar_user" ->
                  IF upload # NoAvatar
                  THEN invalidate_user_cache(resolved, req.uid) ELSE resolved
            [] req.op = "confirm_password_reset" ->
                  invalidate_user_cache(userCache, req.uid)
            [] OTHER -> userCache
    /\ resetCache' =
          CASE req.op = "request_password_reset" ->
                  cache_reset_token(resetCache, email, req.val,
                                    RESET_TOKEN_TTL)
            [] req.op = "confirm_password_reset" ->
                  invalidate_reset_token(resetCache, email)
            [] OTHER -> resetCache
    /\ history' = IF req.op = "request_password_reset"
                  THEN [history EXCEPT !.handed = @ \cup {req.val}]
                  ELSE history
    /\ UNCHANGED <<now, nextUuid, bearer, pending, contactVars, resolving,
                   updating, resetting, resending, redisAnswers>>

\* The Redis service stops answering (the connection stays open).
RedisStopsAnswering ==
    /\ redisAnswers
    /\ redisAnswers' = FALSE
    /\ UNCHANGED <<users, userCache, resetCache, now, nextUuid, bearer,
                   history, pending, contactVars, resolving, updating,
                   resetting, resending, awaiting>>

NextCacheLive ==
    \/ \E email \in Emails, password \in Passwords : Signup(email, password)
    \/ \E token \in UuidSpace : VerifyEmail(token)
    \/ \E email \in Emails, password \in Passwords : Login(email, password)
    \/ \E token \in Bearers, op \in {"get_current_user", "update_avatar_user"} :
          BeginResolve(token, op)
    \/ \E email \in Emails : BeginRequestReset(email)
    \/ \E token \in UuidSpace, password \in Passwords :
          BeginConfirmReset(token, password)
    \/ \E req \in awaiting, upload \in Urls \cup {NoAvatar} :
          RedisAnswer(req, upload)
    \/ RedisStopsAnswering

\* Every waiting request goes on once the service has answered: the server
\* runs each request in a thread of its own.
SpecCacheLive ==
    /\ Init
    /\ [][NextCacheLive]_vars
    /\ \A req \in Requests :
          WF_vars(\E upload \in Urls \cup {NoAvatar} : RedisAnswer(req, upload))

\* =================================================================== claims
EmailNotVerified == "Please verify your email address"
InvalidCredentials == "Incorrect username or password"
NotFound == 404

\* The request leaves the store and the cache as they are.
NoEffect(r) ==
    /\ r.users = users
    /\ r.userCache = userCache
    /\ r.resetCache = resetCache
    /\ r.uuids = 0

\* C1: in every reachable state a login for an identity with verified = FALSE
\* is refused (401) without a token, and with "Please verify your email
\* address" when the password is the stored one; redeeming the identity's
\* verification token sets verified and keeps its credentials, and a login
\* for a verified identity with its stored password is answered 200 with a
\* token that decodes under the server's key to that email as subject.
C1_LoginRequiresVerification ==
    /\ \A email \in Emails, password \in Passwords :
          LET user == get_user_by_email(email)
              r == login(email, password) IN
          user # 0 =>
            /\ ~users[user].verified =>
                  /\ r.status = 401
                  /\ r.access_token = NoBearer
                  /\ verify_password(password, users[user].hashed_password)
                        => r.detail = EmailNotVerified
            /\ (/\ users[user].verified
                /\ verify_password(password, users[user].hashed_password))
                  => /\ r.status = 200
                     /\ JwtDecodeOk(r.access_token, SECRET_KEY)
                     /\ r.access_token.sub = email
    /\ \A token \in UuidSpace :
          LET v == verify_email(token) IN
          v.status = 200 =>
            /\ v.users[v.uid].verified
            /\ v.users[v.uid].email = users[v.uid].email
            /\ v.users[v.uid].hashed_password = users[v.uid].hashed_password

\* C1 witness: the signed-up identity has redeemed its verification token
\* and a login with its password has then handed it a token for its email.
C1_Witness ==
    \E user \in Ids :
      /\ users[user].email = "a@x.com"
      /\ users[user].verified
      /\ history.verified # {}
      /\ bearer["a@x.com"].sub = "a@x.com"
      /\ \E password \in Passwords : login("a@x.com", password).status = 200

\* C3: a verification succeeds by setting verified and clearing the token,
\* and a verification token that has been redeemed is never accepted again:
\* in every later state verify_email with it answers 404 and leaves every
\* users row (and the cache) unchanged.
C3_VerificationSingleUse ==
    /\ \A token \in UuidSpace :
          LET v == verify_email(token) IN
          v.status = 200 =>
            /\ v.users[v.uid].verified
            /\ v.users[v.uid].verification_token = NoToken
    /\ \A token \in history.verified :
          LET v == verify_email(token) IN
          v.status = NotFound /\ NoEffect(v)

\* C3 witness: a verification token has been redeemed, its identity is
\* verified with the token cleared, and presenting it again answers 404.
C3_Witness ==
    \E token \in history.verified, user \in Ids :
      /\ users[user].verified
      /\ users[user].role = "user"
      /\ users[user].verification_token = NoToken
      /\ verify_email(token).status = NotFound

\* Every uuid that was ever the verification token of some identity and is
\* no longer: redeemed or replaced.
SpentVerificationTokens == history.verified \cup history.replaced

\* C4: resend for an unverified identity answers 200 and replaces its
\* verification token by a token that is none of the tokens issued before
\* (current, replaced or redeemed); every replaced token is refused by
\* verify_email with 404 from then on, while the current token of an
\* unverified identity is accepted and verifies that identity; resend for
\* an unknown email answers 404 and for a verified identity 400, both
\* without any change of state.
C4_ResendReplacesToken ==
    /\ \A email \in Emails :
          LET user == get_user_by_email(email)
              r == resend_verification_email(email) IN
          /\ user = 0 => r.status = 404 /\ NoEffect(r)
          /\ (user # 0 /\ users[user].verified) =>
                r.status = 400 /\ NoEffect(r)
          /\ (user # 0 /\ ~users[user].verified) =>
                /\ r.status = 200
                /\ r.users[user].verification_token # NoToken
                /\ r.users[user].verification_token
                      # users[user].verification_token
                /\ r.users[user].verification_token
                      \notin SpentVerificationTokens
                /\ r.notify = r.users[user].verification_token
    /\ \A token \in history.replaced :
          LET v == verify_email(token) IN
          v.status = NotFound /\ NoEffect(v)
    /\ \A user \in Ids :
          ~users[user].verified =>
            LET v == verify_email(users[user].verification_token) IN
            /\ users[user].verification_token # NoToken
            /\ v.status = 200
            /\ v.uid = user

\* C4 witness: a resend has replaced the identity's token; the identity is
\* still unverified, the old token answers 404 and the new one 200.
C4_Witness ==
    \E user \in Ids, old \in history.replaced :
      /\ ~users[user].verified
      /\ users[user].verification_token # old
      /\ verify_email(old).status = NotFound
      /\ verify_email(users[user].verification_token).status = 200

\* A bearer token that get_current_user resolves to the users row user.
Resolves(token, user) ==
    /\ JwtDecodeOk(token, SECRET_KEY)
    /\ token.sub # NoSub
    /\ user # 0
    /\ get_user_by_email(token.sub) = user

\* C2: a reset token handed out for a verified identity and still current is
\* accepted by confirm_password_reset (200, new hash stored, token cleared)
\* whatever the cache does; a reset token that has been redeemed is refused
\* with 400 "Invalid or expired reset token" without any change; and a
\* verified identity logs in with exactly the password whose hash is stored,
\* every other password being refused with "Incorrect username or password".
C2_ResetFlowSequential ==
    /\ \A user \in Ids :
          LET t == users[user].reset_token IN
          (t # NoToken /\ t \in history.handed) =>
            \A new_password \in Passwords, fault \in ConfirmFaults :
              LET r == confirm_password_reset(t, new_password, fault) IN
              /\ r.status = 200
              /\ r.users[user].hashed_password
                    = get_password_hash(new_password)
              /\ r.users[user].reset_token = NoToken
    /\ \A t \in history.reset :
          \A new_password \in Passwords, fault \in ConfirmFaults :
            LET r == confirm_password_reset(t, new_password, fault) IN
            /\ r.status = 400
            /\ r.detail = "Invalid or expired reset token"
            /\ NoEffect(r)
    /\ \A user \in Ids, password \in Passwords :
          users[user].verified =>
            LET r == login(users[user].email, password) IN
            IF users[user].hashed_password = get_password_hash(password)
            THEN r.status = 200
            ELSE r.status = 401 /\ r.detail = InvalidCredentials

\* C5: in every state the response of request_password_reset (status and
\* body) is the same for every email, whether it is unknown, unverified or
\* verified with a token issued.
C5_ResetRequestUniformResponse ==
    \A e1 \in Emails, e2 \in Emails,
       f1 \in RequestFaults, f2 \in RequestFaults :
      LET r1 == request_password_reset(e1, f1)
          r2 == request_password_reset(e2, f2) IN
      /\ r1.status = r2.status
      /\ r1.detail = r2.detail

\* C6: an avatar-update request changes the avatar of a row only if its
\* bearer token resolves to that row and the row's role is admin; a request
\* whose token resolves to a user-role row is answered 403 with no upload
\* stored, no row written and no cache key deleted.
C6_AvatarAdminOnly ==
    \A token \in Bearers, fault \in AvatarFaults,
       upload \in Urls \cup {NoAvatar} :
      LET r == update_avatar_user(token, fault, upload) IN
      /\ \A user \in Ids :
            r.users[user].avatar # users[user].avatar =>
              /\ Resolves(token, user)
              /\ users[user].role = "admin"
      /\ \A user \in Ids :
            (Resolves(token, user) /\ users[user].role = "user") =>
              /\ r.status = 403
              /\ r.users = users
              /\ DOMAIN userCache \subseteq DOMAIN r.userCache

\* C7: with a valid token for an existing identity, get_current_user returns
\* that identity when the cache read raises.
C7_CacheReadOutageTolerated ==
    \A token \in Bearers, user \in Ids :
      Resolves(token, user) =>
        LET r == get_current_user(token, "get_cached_user") IN
        /\ r.status = 0
        /\ r.uid = user

\* C8: with a valid token for an existing identity whose snapshot is not
\* cached, get_current_user returns that identity when the cache write
\* raises, as it does when the write succeeds.
C8_CacheWriteFailureTolerated ==
    \A token \in Bearers, user \in Ids :
      (Resolves(token, user) /\ get_cached_user(userCache, user) = {}) =>
        /\ get_current_user(token, NoFault).status = 0
        /\ get_current_user(token, "cache_user").status = 0
        /\ get_current_user(token, "cache_user").uid = user

\* C9: whenever confirm_password_reset or update_avatar_user has committed
\* its write to the users table, the response is 200 even if the cache
\* invalidation that follows raises.
C9_InvalidationFailureTolerated ==
    /\ \A token \in UuidSpace, new_password \in Passwords :
          LET r == confirm_password_reset(token, new_password,
                                          "invalidate_user_cache")
              q == confirm_password_reset(token, new_password,
                                          "invalidate_reset_token") IN
          /\ r.users # users => r.status = 200
          /\ q.users # users => q.status = 200
    /\ \A token \in Bearers, upload \in Urls :
          LET r == update_avatar_user(token, "invalidate_user_cache", upload)
          IN r.users # users => r.status = 200

\* C10: whenever confirm_password_reset answers 200, the cache it leaves
\* holds no reset-token entry for the identity's email and no snapshot for
\* the identity's id.
C10_ResetSuccessInvalidatesCache ==
    \A token \in UuidSpace, new_password \in Passwords,
       fault \in ConfirmFaults :
      LET r == confirm_password_reset(token, new_password, fault) IN
      r.status = 200 =>
        /\ r.uid \in Ids
        /\ users[r.uid].reset_token = token
        /\ get_reset_token(r.resetCache, users[r.uid].email) = {}
        /\ get_cached_user(r.userCache, r.uid) = {}

\* C10 witness: a reset has already been confirmed, and an identity holds a
\* reset token while the cache holds both its reset-token entry and its
\* snapshot, so that confirming removes both.
C10_Witness ==
    \E user \in Ids :
      /\ history.reset # {}
      /\ users[user].reset_token # NoToken
      /\ get_reset_token(resetCache, users[user].email)
            = {users[user].reset_token}
      /\ get_cached_user(userCache, user) # {}
      /\ confirm_password_reset(users[user].reset_token, "pw2",
                                NoFault).status = 200

\* The snapshot get_current_user caches for the users row user.
Snapshot(user) ==
    [id       |-> user,
     email    |-> users[user].email,
     avatar   |-> users[user].avatar,
     verified |-> users[user].verified,
     role     |-> users[user].role]

\* C11: whenever update_avatar_user answers 200, the state it leaves has the
\* uploaded URL in the caller's row and no snapshot for the caller's id in
\* the cache; and whenever no snapshot is cached for an identity, a
\* get_current_user that resolves it caches a snapshot that carries the
\* avatar currently in the store.
C11_AvatarUpdateInvalidatesSnapshot ==
    /\ \A token \in Bearers, fault \in AvatarFaults, upload \in Urls :
          LET r == update_avatar_user(token, fault, upload) IN
          r.status = 200 =>
            /\ Resolves(token, r.uid)
            /\ r.users[r.uid].avatar = upload
            /\ get_cached_user(r.userCache, r.uid) = {}
    /\ \A token \in Bearers, user \in Ids :
          (Resolves(token, user) /\ get_cached_user(userCache, user) = {}) =>
            LET r == get_current_user(token, NoFault) IN
            /\ r.status = 0
            /\ get_cached_user(r.userCache, user) = {Snapshot(user)}
            /\ \A s \in get_cached_user(r.userCache, user) :
                  s.avatar = users[user].avatar

\* C11 witness: the administrator's avatar has been updated and a later
\* resolution has cached a snapshot with the new URL; a further update
\* removes that snapshot.
C11_Witness ==
    \E token \in Bearers, user \in Ids :
      /\ Resolves(token, user)
      /\ users[user].avatar = "url1"
      /\ get_cached_user(userCache, user) = {Snapshot(user)}
      /\ update_avatar_user(token, NoFault, "url1").status = 200

InvalidOrExpiredToken == "Invalid or expired reset token"

\* C12: a request_password_reset that issues a token stores it in the
\* identity's single reset_token field in place of the outstanding one, so
\* the old token matches no row afterwards; every superseded reset token is
\* refused by confirm_password_reset with 400 "Invalid or expired reset
\* token" without any change; and the token an identity currently holds
\* belongs to that identity alone and is the one a confirmation accepts.
C12_OneLiveResetToken ==
    /\ \A email \in Emails, fault \in RequestFaults :
          LET r == request_password_reset(email, fault) IN
          r.uuids = 1 =>
            LET old == users[r.uid].reset_token IN
            /\ r.users[r.uid].reset_token = nextUuid
            /\ r.users[r.uid].reset_token # old
            /\ old # NoToken =>
                  \A user \in Ids : r.users[user].reset_token # old
    /\ \A t \in history.superseded :
          \A new_password \in Passwords, fault \in ConfirmFaults :
            LET r == confirm_password_reset(t, new_password, fault) IN
            /\ r.status = 400
            /\ r.detail = InvalidOrExpiredToken
            /\ NoEffect(r)
    /\ \A user \in Ids :
          users[user].reset_token # NoToken =>
            /\ \A other \in Ids :
                  users[other].reset_token = users[user].reset_token
                    => other = user
            /\ \A new_password \in Passwords :
                  LET r == confirm_password_reset(users[user].reset_token,
                                                  new_password, NoFault) IN
                  r.status = 200 /\ r.uid = user

\* C12 witness: an identity was issued t1 and then t2; t1 is superseded and
\* refused, t2 is its current token and is accepted.
C12_Witness ==
    \E user \in Ids, t1 \in history.superseded, t2 \in history.handed :
      /\ t1 \in history.handed
      /\ t1 # t2
      /\ users[user].reset_token = t2
      /\ confirm_password_reset(t1, "pw2", NoFault).status = 400
      /\ confirm_password_reset(t2, "pw2", NoFault).status = 200

UserNotFound == "User not found"
UserNotVerified == "User not verified"

\* C13: create_password_reset_token raises ValueError("User not found") when
\* no row has the email and ValueError("User not verified") when the row
\* has verified = FALSE; in both cases no row gets a reset token, no uuid
\* is drawn and no cache key is written, whatever Redis would do.
C13_ResetRequestRefusals ==
    \A email \in Emails, fault \in RequestFaults :
      LET user == get_user_by_email(email)
          r == create_password_reset_token(email, fault) IN
      /\ user = 0 =>
            /\ r.raises = "ValueError"
            /\ r.out.detail = UserNotFound
            /\ NoEffect(r.out)
            /\ r.out.notify = NoToken
      /\ (user # 0 /\ ~users[user].verified) =>
            /\ r.raises = "ValueError"
            /\ r.out.detail = UserNotVerified
            /\ NoEffect(r.out)
            /\ r.out.notify = NoToken

\* C13 witness: an unverified identity exists, its request is refused with
\* "User not verified", and no row holds a reset token.
C13_Witness ==
    \E user \in Ids :
      /\ ~users[user].verified
      /\ create_password_reset_token(users[user].email, NoFault).raises
            = "ValueError"
      /\ create_password_reset_token(users[user].email, NoFault).out.detail
            = UserNotVerified
      /\ users[user].reset_token = NoToken

\* C14: confirm_password_reset with a token that is the reset_token of no
\* row is answered 400 "Invalid or expired reset token", whatever Redis
\* would do, and leaves every row and every cache key as it was.
C14_UnknownResetTokenRefused ==
    \A token \in UuidSpace, new_password \in Passwords,
       fault \in ConfirmFaults :
      (\A user \in Ids : users[user].reset_token # token) =>
        LET r == confirm_password_reset(token, new_password, fault) IN
        /\ r.status = 400
        /\ r.detail = InvalidOrExpiredToken
        /\ NoEffect(r)

\* C14 witness: one reset token has been redeemed and is refused, while an
\* identity holds another, current one and the cache holds its entry.
C14_Witness ==
    \E redeemed \in history.reset, user \in Ids :
      /\ users[user].reset_token # NoToken
      /\ users[user].reset_token # redeemed
      /\ get_reset_token(resetCache, users[user].email) # {}
      /\ confirm_password_reset(redeemed, "pw2", NoFault).status = 400

\* C15: login answers 401 "Incorrect username or password" whenever no row
\* has the email or the password does not verify against the row's hash,
\* whether the row is verified or not; it answers "Please verify your email
\* address" exactly when the row exists, the password verifies and the row
\* has verified = FALSE.
C15_LoginFailureOrder ==
    \A email \in Emails, password \in Passwords :
      LET user == get_user_by_email(email)
          r == login(email, password)
          credentialsOk ==
              /\ user # 0
              /\ verify_password(password, users[user].hashed_password) IN
      /\ ~credentialsOk =>
            /\ r.status = 401
            /\ r.detail = InvalidCredentials
            /\ r.access_token = NoBearer
      /\ r.detail = EmailNotVerified
            <=> (credentialsOk /\ ~users[user].verified)
      /\ NoEffect(r)

\* C15 witness: an unverified identity for which one password is refused as
\* invalid credentials and the stored one as not verified.
C15_Witness ==
    \E user \in Ids, wrong \in Passwords, right \in Passwords :
      /\ ~users[user].verified
      /\ login(users[user].email, wrong).detail = InvalidCredentials
      /\ login(users[user].email, right).detail = EmailNotVerified

\* C16: in every step, no row is removed, a row with verified = TRUE keeps
\* it, and a row goes from verified = FALSE to TRUE only in a step that
\* redeems the token the row held (verify_email with that token: the row is
\* updated by update_verification_status and the token joins the redeemed
\* ones).
C16_VerifiedMonotone ==
    [][/\ Len(users') >= Len(users)
       /\ \A user \in Ids :
            /\ users[user].verified => users'[user].verified
            /\ (~users[user].verified /\ users'[user].verified) =>
                  /\ users[user].verification_token # NoToken
                  /\ users' = update_verification_status(user)
                  /\ verify_email(users[user].verification_token).uid = user
                  /\ history'.verified =
                        history.verified
                           \cup {users[user].verification_token}]_vars

\* C16 witness: an identity was verified by redeeming its token and has
\* since gone through a login and a password-reset request, still verified.
C16_Witness ==
    \E user \in Ids :
      /\ users[user].verified
      /\ users[user].role = "user"
      /\ history.verified # {}
      /\ bearer[users[user].email] # NoBearer
      /\ users[user].reset_token # NoToken

DuplicateEmail == "Email already registered"

\* C17: no two rows of users have the same email; a signup whose lookup
\* finds the email registered is answered 409 "Email already registered"
\* and leaves the table as it is; and so is a signup whose lookup ran before
\* the email was registered and whose INSERT comes after.
C17_OneIdentityPerEmail ==
    /\ \A i \in Ids, j \in Ids : users[i].email = users[j].email => i = j
    /\ \A email \in Emails, password \in Passwords :
          get_user_by_email(email) # 0 =>
            LET r == signup(email, password) IN
            /\ r.status = 409
            /\ r.detail = DuplicateEmail
            /\ r.users = users
    /\ \A email \in Emails, password \in Passwords :
          pending[email] > 0 /\ get_user_by_email(email) # 0 =>
            LET r == signup_insert(email, password) IN
            /\ r.status = 409
            /\ r.detail = DuplicateEmail
            /\ r.users = users

\* The part of C17 that holds under SpecInterleaved: emails are unique and
\* a signup for a registered email never creates or changes a row.
C17_UniqueEmails ==
    /\ \A i \in Ids, j \in Ids : users[i].email = users[j].email => i = j
    /\ \A email \in Emails, password \in Passwords :
          get_user_by_email(email) # 0 =>
            /\ signup(email, password).users = users
            /\ signup_insert(email, password).users = users

Unauthenticated == "Could not validate credentials"

\* Tokens signed with the server's key now, for each email and for no
\* subject: what create_access_token returns when called directly.
SignedTokens ==
    {create_access_token(sub, ACCESS_TOKEN_EXPIRE_MINUTES * 60) :
        sub \in Emails \cup {NoSub}}

C19_CacheWrittenOnMissOnly ==
    \A token \in Bearers \cup SignedTokens, fault \in ResolveFaults :
      LET r == get_current_user(token, fault) IN
      r.status = 0 =>
        /\ Resolves(token, r.uid)
        /\ r.users = users
        /\ r.resetCache = resetCache
        /\ IF get_cached_user(userCache, r.uid) = {}
           THEN r.userCache =
                   (r.uid :> [val |-> JsonDumps(Snapshot(r.uid)),
                              exp |-> now + USER_CACHE_TTL]) @@ userCache
           ELSE r.userCache = userCache

\* C19 witness: one held token resolves to an identity whose snapshot is
\* cached but no longer equal to the row (a hit that a write would change),
\* another to an identity with no snapshot (a miss).
C19_Witness ==
    \E hit \in Bearers, miss \in Bearers, u1 \in Ids, u2 \in Ids :
      /\ Resolves(hit, u1)
      /\ get_cached_user(userCache, u1) # {}
      /\ get_cached_user(userCache, u1) # {Snapshot(u1)}
      /\ get_current_user(hit, NoFault).status = 0
      /\ Resolves(miss, u2)
      /\ get_cached_user(userCache, u2) = {}
      /\ get_current_user(miss, NoFault).status = 0

\* C20: login hands out a token only for a row with verified = TRUE; the
\* subject of every token a client holds from a login is the email of a
\* verified row; and whenever get_current_user, /users/me/ or a contacts
\* route accepts such a token, the identity it acts for is verified.
C20_BearerImpliesVerified ==
    /\ \A email \in Emails, password \in Passwords :
          LET r == login(email, password) IN
          r.status = 200 =>
            /\ users[r.uid].verified
            /\ users[r.uid].email = r.access_token.sub
    /\ \A email \in Emails :
          bearer[email] # NoBearer =>
            LET user == get_user_by_email(bearer[email].sub) IN
            /\ user # 0
            /\ users[user].verified
    /\ \A email \in Emails, fault \in ResolveFaults :
          LET cu == get_current_user(bearer[email], fault)
              me == read_users_me(bearer[email], fault, FALSE)
              co == contact_operation(bearer[email], fault) IN
          /\ cu.status = 0 => users[cu.uid].verified
          /\ me.status = 200 => users[me.uid].verified
          /\ co.status = 200 =>
                /\ users[co.uid].verified
                /\ users[co.uid].email = bearer[email].sub

\* C20 witness: an identity that signed up and redeemed its verification
\* token holds an unexpired token from login, and a contacts request with
\* it is served on its behalf.
C20_Witness ==
    \E user \in Ids :
      /\ users[user].role = "user"
      /\ users[user].verified
      /\ history.verified # {}
      /\ JwtDecodeOk(bearer[users[user].email], SECRET_KEY)
      /\ contact_operation(bearer[users[user].email], NoFault).status = 200
      /\ contact_operation(bearer[users[user].email], NoFault).uid = user

ContactNotFound == "Contact not found"

\* The rows of a contacts table that belong to other users than user_id.
Foreign(table, user_id) == {c \in table : c.user_id # user_id}

\* A contacts request respects the tenants: what it returns belongs to the
\* caller it resolved, and the rows of the other users are after it what
\* they were before it.
Isolated(r) ==
    /\ \A c \in r.body : c.user_id = r.uid
    /\ Foreign(r.contacts, r.uid) = Foreign(contacts, r.uid)

\* C21: the contacts routes are tenant-isolated.  Read, list, search,
\* birthdays, update and delete return and modify only rows whose user_id is
\* the caller's id; read, update and delete of a contact id that belongs to
\* another user answer 404 "Contact not found" and leave the table as it
\* was; a created row always carries the caller's id as its user_id.
C21_ContactsTenantIsolated ==
    \A token \in Bearers, fault \in ResolveFaults :
        LET cu == get_current_user(token, fault) IN
        /\ \A contact \in ContactCreates :
              LET r == create_contact_route(token, fault, contact) IN
              /\ Isolated(r)
              /\ r.status = 201 =>
                    /\ r.contacts \ contacts = r.body
                    /\ \A c \in r.body : c.user_id = cu.uid /\ cu.uid # 0
        /\ \A skip \in Skips, limit \in Limits :
              \A page \in get_contacts(cu.uid, skip, limit) :
                  LET r == read_contacts(token, fault, skip, limit, page) IN
                  Isolated(r) /\ r.contacts = contacts
        /\ \A query \in Queries :
              LET r == search_contacts_route(token, fault, query) IN
              Isolated(r) /\ r.contacts = contacts
        /\ LET r == get_birthdays_route(token, fault) IN
           Isolated(r) /\ r.contacts = contacts
        /\ \A contact_id \in ContactIds :
              LET get == read_contact(token, fault, contact_id)
                  del == delete_contact_route(token, fault, contact_id)
                  foreign == \E c \in contacts :
                                c.id = contact_id /\ c.user_id # cu.uid
              IN
              /\ Isolated(get) /\ get.contacts = contacts
              /\ Isolated(del)
              /\ cu.status = 0 /\ foreign =>
                    /\ get.status = NotFound /\ get.detail = ContactNotFound
                    /\ del.status = NotFound /\ del.detail = ContactNotFound
                    /\ del.contacts = contacts
              /\ \A contact \in ContactCreates :
                    LET upd == update_contact_route(token, fault, contact_id,
                                                    contact) IN
                    /\ Isolated(upd)
                    /\ cu.status = 0 /\ foreign =>
                          /\ upd.status = NotFound
                          /\ upd.detail = ContactNotFound
                          /\ upd.contacts = contacts

\* Two users hold a contact each, and one of them presents its token.
C21_Witness ==
    \E e \in Emails, mine \in contacts, other \in contacts :
        /\ bearer[e] # NoBearer
        /\ get_current_user(bearer[e], NoFault).status = 0
        /\ mine.user_id = get_current_user(bearer[e], NoFault).uid
        /\ other.user_id # mine.user_id
        /\ read_contact(bearer[e], NoFault, other.id).status = NotFound
        /\ read_contact(bearer[e], NoFault, mine.id).body = {mine}

\* Expiry windows a caller of create_access_token can ask for, in seconds.
ExpiryWindows == {1, DEFAULT_EXPIRE_MINUTES * 60,
                  ACCESS_TOKEN_EXPIRE_MINUTES * 60}

\* C22: token round trip.  A token issued for subject s with a positive
\* expiry window decodes, right after it was issued, to a payload whose
\* subject is s; a token whose expiry instant has passed does not decode,
\* and the request that presents it is answered 401 "Could not validate
\* credentials".
C22_TokenRoundTrip ==
    /\ \A s \in Emails, w \in ExpiryWindows :
          LET token == create_access_token(s, w) IN
          /\ JwtDecode(token, SECRET_KEY) # {}
          /\ \A payload \in JwtDecode(token, SECRET_KEY) : payload.sub = s
    /\ \A email \in Emails, password \in Passwords :
          LET r == login(email, password) IN
          r.status = 200 =>
              /\ \A payload \in JwtDecode(r.access_token, SECRET_KEY) :
                    payload.sub = email
              /\ \A fault \in ResolveFaults :
                    get_current_user(r.access_token, fault).status # 401
    /\ \A e \in Emails :
          bearer[e] # NoBearer /\ bearer[e].exp < now =>
              /\ JwtDecode(bearer[e], SECRET_KEY) = {}
              /\ \A fault \in ResolveFaults :
                    LET cu == get_current_user(bearer[e], fault) IN
                    cu.status = 401 /\ cu.detail = Unauthenticated

\* A client holds a token of /login whose expiry instant has passed.
C22_Witness ==
    \E e \in Emails :
        /\ bearer[e] # NoBearer
        /\ bearer[e].sig = SECRET_KEY
        /\ bearer[e].sub = e
        /\ bearer[e].exp < now
        /\ get_user_by_email(e) # 0

\* C23: the expiry check is strict.  A token presented at instant now is
\* accepted when now < exp and rejected at every now >= exp, the instant
\* now = exp included.
C23_ExpiryCheckStrict ==
    \A e \in Emails :
        bearer[e] # NoBearer =>
            (JwtDecode(bearer[e], SECRET_KEY) # {} <=> now < bearer[e].exp)

\* C24: the token of a successful login carries the email of the request as
\* its subject and expires ACCESS_TOKEN_EXPIRE_MINUTES (30) minutes after
\* the instant it was issued; the 15-minute default of create_access_token
\* is never what login gets.
C24_LoginTokenSubjectAndExpiry ==
    \A email \in Emails, password \in Passwords :
        LET r == login(email, password) IN
        r.status = 200 =>
            /\ r.access_token.sub = email
            /\ r.access_token.exp = now + ACCESS_TOKEN_EXPIRE_MINUTES * 60
            /\ r.access_token.exp # now + DEFAULT_EXPIRE_MINUTES * 60
            /\ r.access_token.sig = SECRET_KEY

\* A login succeeds after the clock has moved on.
C24_Witness ==
    \E email \in Emails, password \in Passwords :
        /\ login(email, password).status = 200
        /\ login(email, password).access_token.exp = now + 1800
        /\ now > 0

\* C25: roles are immutable.  Every row a signup creates has the role
\* "user", and no route changes the role of a row: whatever requests were
\* served, every row has the role it was created with (the seeded
\* administrator "admin", every row created by a signup "user").
C25_RoleImmutable ==
    /\ \A i \in Ids :
          users[i].role = IF users[i].email = AdminEmail
                          THEN AdminSeed.role ELSE "user"
    /\ \A email \in Emails, password \in Passwords :
          LET r == signup(email, password) IN
          r.status = 201 =>
              /\ Len(r.users) = Len(users) + 1
              /\ r.users[Len(r.users)].role = "user"
              /\ \A i \in Ids : r.users[i].role = users[i].role

\* A signed-up account went through verification, login and a password
\* reset, and the administrator changed its avatar.
C25_Witness ==
    /\ Len(users) = 2
    /\ users[2].verified
    /\ bearer[users[2].email] # NoBearer
    /\ history.reset # {}
    /\ users[1].avatar # NoAvatar

\* get_cached_user at instant t.
CachedUserAt(cache, user_id, t) ==
    {JsonLoads(s) : s \in GetAt(cache, user_id, t)}

\* Instants around the end of the lifetime of a snapshot cached now.
ReadInstants ==
    {now, now + USER_CACHE_TTL - 1, now + USER_CACHE_TTL,
     now + USER_CACHE_TTL + 1}

\* Snapshots a caller can cache: the projection of a users row, with the
\* avatar it has or another one.
Snapshots ==
    {Snapshot(i) : i \in Ids}
        \cup {[Snapshot(i) EXCEPT !.avatar = url] : i \in Ids, url \in Urls}

\* C26: semantics of the identity cache.  After invalidate_user_cache(id) a
\* get_cached_user(id) is a miss, at every later instant, until a snapshot is
\* cached again; after cache_user(id, snapshot) a get_cached_user(id) before
\* the TTL (3600 s) has elapsed returns exactly that snapshot, and one at or
\* after that instant is a miss; the entries of the other ids read the same
\* before and after either operation.
C26_CacheSemantics ==
    \A id \in Ids :
        LET gone == invalidate_user_cache(userCache, id) IN
        /\ \A t \in ReadInstants : CachedUserAt(gone, id, t) = {}
        /\ get_cached_user(gone, id) = {}
        /\ \A other \in Ids \ {id}, t \in ReadInstants :
              CachedUserAt(gone, other, t) = CachedUserAt(userCache, other, t)
        /\ \A snapshot \in Snapshots :
              LET put == cache_user(userCache, id, snapshot)
                  again == cache_user(gone, id, snapshot) IN
              /\ get_cached_user(put, id) = {snapshot}
              /\ get_cached_user(again, id) = {snapshot}
              /\ \A t \in ReadInstants :
                    /\ t < now + USER_CACHE_TTL =>
                          CachedUserAt(put, id, t) = {snapshot}
                    /\ t >= now + USER_CACHE_TTL =>
                          CachedUserAt(put, id, t) = {}
                    /\ \A other \in Ids \ {id} :
                          CachedUserAt(put, other, t)
                              = CachedUserAt(userCache, other, t)

\* Redis holds a live snapshot for each of two identities.
C26_Witness ==
    \E i \in Ids, j \in Ids :
        /\ i # j
        /\ get_cached_user(userCache, i) # {}
        /\ get_cached_user(userCache, j) # {}

\* C27: an upload that fails during an avatar update propagates (nothing
\* catches it, the request is answered with the server error) and the update
\* mutates nothing: the users table is what it was, no avatar has changed,
\* and the identity cache is what the resolution of the caller left, with no
\* snapshot written or invalidated by the update.
C27_UploadFailureMutatesNothing ==
    \A token \in Bearers, fault \in AvatarFaults :
        LET cu == get_current_user(token, fault)
            r == update_avatar_user(token, fault, NoAvatar) IN
        /\ r.status # 200
        /\ r.users = users
        /\ r.resetCache = resetCache
        /\ r.userCache = cu.userCache
        /\ cu.status = 0 /\ require_admin(cu.uid) =>
              /\ r.status = InternalServerError.status
              /\ r.detail = InternalServerError.detail
              /\ r.users[cu.uid].avatar = users[cu.uid].avatar
              /\ \A id \in Ids :
                    get_cached_user(r.userCache, id)
                        = get_cached_user(cu.userCache, id)

\* The administrator, whose avatar was set before and whose snapshot is in
\* the cache, asks for an avatar update and the upload fails.
C27_Witness ==
    \E token \in Bearers :
        LET cu == get_current_user(token, NoFault) IN
        /\ cu.status = 0
        /\ require_admin(cu.uid)
        /\ users[cu.uid].avatar # NoAvatar
        /\ get_cached_user(userCache, cu.uid) # {}
        /\ update_avatar_user(token, NoFault, NoAvatar).status = 500

\* C28: no partial mutation in the reset confirmation.  When hashing the new
\* password fails for a reset token a row holds, the request fails and
\* nothing has changed: the row still holds the token and its old password
\* hash, no cache entry (reset token, identity snapshot) has been
\* invalidated, and the same token is still redeemed by a later request.
C28_ConfirmResetNoPartialMutation ==
    \A token \in UuidSpace, new_password \in Passwords :
        LET user == UserByResetToken(token)
            r == confirm_password_reset(token, new_password,
                                        "get_password_hash") IN
        user # 0 =>
            /\ r.status = InternalServerError.status
            /\ r.users = users
            /\ r.users[user].reset_token = token
            /\ r.users[user].hashed_password = users[user].hashed_password
            /\ r.resetCache = resetCache
            /\ r.userCache = userCache
            /\ confirm_password_reset(token, new_password, NoFault).status
                   = 200

\* A row holds a reset token while the token and the identity snapshot of
\* the row are cached.
C28_Witness ==
    \E token \in UuidSpace :
        LET user == UserByResetToken(token) IN
        /\ user # 0
        /\ get_cached_user(userCache, user) # {}
        /\ get_reset_token(resetCache, users[user].email) = {token}
        /\ confirm_password_reset(token, "pw2", "get_password_hash").status
               = 500

\* C29: under any interleaving of an avatar update with concurrent
\* resolutions of the same identity, a cached snapshot carries an avatar
\* other than the one in the store only between the commit of an update and
\* its invalidation: once the invalidation has completed, no cached snapshot
\* carries the pre-update avatar.
C29_StaleSnapshotOnlyInWindow ==
    \A id \in Ids :
        \A snapshot \in get_cached_user(userCache, id) :
            snapshot.avatar # users[id].avatar => id \in updating

\* The confirmations of reset token t that were answered 200.
SuccessfulResets(t) ==
    Cardinality({p \in resetting : p.token = t /\ p.answered = 200})
        + (IF t \in history.reset THEN 1 ELSE 0)

\* C30: under any interleaving of concurrent confirmations that carry the
\* same reset token, at most one is answered with success: the lookup of the
\* token and the write that clears it behave as one atomic step.
C30_AtMostOneResetSucceeds ==
    \A t \in UuidSpace : SuccessfulResets(t) <= 1

\* C31: in every reachable state, those reached by interleaving a resend
\* with a verification of the same identity included, a verified row holds
\* no verification token; hence no verification token is redeemed against a
\* row that is verified already.
C31_VerifiedHoldsNoToken ==
    /\ \A i \in Ids :
          users[i].verified => users[i].verification_token = NoToken
    /\ \A token \in UuidSpace :
          LET r == verify_email(token) IN
          r.status = 200 => ~users[r.uid].verified

\* C32: under any interleaving of two concurrent signups for the same
\* email, exactly one creates a row and the other is rejected with 409
\* "Email already registered" and no other error, also when both ran their
\* lookup before either ran its INSERT: the INSERT of a signup in flight
\* creates the row when the email is free and is answered 409 when it has
\* been registered in between.
C32_ConcurrentSignupRejectedAsDuplicate ==
    \A email \in Emails, password \in Passwords :
        pending[email] > 0 =>
            LET r == signup_insert(email, password) IN
            IF get_user_by_email(email) = 0
            THEN r.status = 201 /\ Len(r.users) = Len(users) + 1
            ELSE r.status = 409 /\ r.detail = DuplicateEmail

\* C33: on a successful create_password_reset_token(email) the row is
\* committed before the cache is written (a cache write that raises leaves
\* the new token in the row), and on return the reset_token of the row, the
\* token handed back to the caller and the value cached under the email are
\* one and the same fresh token, the cache entry living 3600 seconds.
C33_ResetTokenStoredReturnedMirrored ==
    \A email \in Emails :
        LET ok == create_password_reset_token(email, NoFault)
            failed == create_password_reset_token(email, "cache_reset_token")
            user == get_user_by_email(email)
        IN
        /\ ok.raises = "" =>
              LET token == ok.out.notify IN
              /\ nextUuid <= MaxTokens => token \in UuidSpace
              /\ token # NoToken
              /\ token # users[user].reset_token
              /\ token \notin history.handed
              /\ \A i \in Ids : users[i].reset_token # token
              /\ ok.out.users[user].reset_token = token
              /\ get_reset_token(ok.out.resetCache, email) = {token}
              /\ ok.out.resetCache[email].exp = now + 3600
              /\ GetAt(ok.out.resetCache, email, now + 3599) = {token}
              /\ GetAt(ok.out.resetCache, email, now + 3600) = {}
        /\ ok.raises = "" =>
              /\ failed.raises = "RedisError"
              /\ failed.out.users = ok.out.users
              /\ failed.out.resetCache = resetCache

\* A verified account that holds an earlier, cached reset token asks for a
\* new one.
C33_Witness ==
    \E email \in Emails :
        LET user == get_user_by_email(email) IN
        /\ user # 0
        /\ users[user].reset_token # NoToken
        /\ get_reset_token(resetCache, email) = {users[user].reset_token}
        /\ nextUuid <= MaxTokens
        /\ create_password_reset_token(email, NoFault).raises = ""

\* Redis contents a resolution can meet: none, those of the current state,
\* and for each row a live snapshot that disagrees with the row (another
\* avatar, the other role, the other verified flag).
CacheContents ==
    {<<>>, userCache}
        \cup {cache_user(userCache, i,
                         [Snapshot(i) EXCEPT !.avatar = "stale",
                                             !.role = "admin",
                                             !.verified = ~@]) : i \in Ids}

Columns == DOMAIN AdminSeed

\* The request wrote at most the columns written of at most one existing
\* row: every row keeps its id (index) and email, every other column of the
\* row is unchanged, and so are all the other rows.
Touches(r, written) ==
    LET after == r.users
        changed == {i \in Ids : after[i] # users[i]} IN
    /\ Len(after) >= Len(users)
    /\ Cardinality(changed) <= 1
    /\ \A i \in changed, c \in Columns \ written : after[i][c] = users[i][c]
    /\ "email" \notin written

\* C35: each mutation of an identity touches only its own columns of one
\* row: verify writes verified and verification_token, resend
\* verification_token, a reset request reset_token, a reset confirmation
\* hashed_password and reset_token, an avatar update avatar; no request
\* changes the id or the email of an existing row or any column of another
\* row.
C35_MutationsTouchOwnFields ==
    /\ \A token \in UuidSpace :
          Touches(verify_email(token), {"verified", "verification_token"})
    /\ \A email \in Emails :
          /\ Touches(resend_verification_email(email),
                     {"verification_token"})
          /\ \A fault \in RequestFaults :
                Touches(request_password_reset(email, fault), {"reset_token"})
          /\ \A password \in Passwords :
                /\ Touches(signup(email, password), {})
                /\ Touches(login(email, password), {})
    /\ \A token \in UuidSpace, password \in Passwords,
          fault \in ConfirmFaults \cup HashFaults :
          Touches(confirm_password_reset(token, password, fault),
                  {"hashed_password", "reset_token"})
    /\ \A token \in Bearers, fault \in AvatarFaults :
          /\ \A upload \in Urls \cup {NoAvatar} :
                Touches(update_avatar_user(token, fault, upload), {"avatar"})
          /\ Touches(read_users_me(token, fault, FALSE), {})

\* Two verified rows exist, one with a reset token outstanding, and the
\* administrator's token is accepted for an avatar update.
C35_Witness ==
    /\ Len(users) = 2
    /\ \A i \in Ids : users[i].verified
    /\ \E i \in Ids : users[i].reset_token # NoToken
    /\ \E token \in Bearers :
          update_avatar_user(token, NoFault, "url1").status = 200

\* C36: every operation of the core (resolution of the caller, reset
\* request, reset confirmation, avatar update) eventually returns to its
\* caller, also when the cache service never answers: a request that waits
\* for Redis does not wait for ever.
C36_CoreOperationsReturn ==
    \A req \in Requests : (req \in awaiting) ~> (req \notin awaiting)

\* Reset tokens Redis can hold when a confirmation arrives: none (every
\* entry expired or deleted), those of the current state, and for each
\* email an entry that mirrors any token, the stored one or another.
ResetCacheContents ==
    {<<>>, resetCache}
        \cup {cache_reset_token(resetCache, e, t, RESET_TOKEN_TTL) :
                 e \in Emails, t \in UuidSpace}

Accepted(e) ==
    /\ bearer[e] # NoBearer
    /\ get_current_user(bearer[e], NoFault).status = 0
    /\ get_current_user(bearer[e], NoFault).uid = get_user_by_email(e)

\* C38: a password reset revokes no session.  A step that commits a
\* password reset of a row (its reset_token goes from a token to null)
\* leaves the bearer token that login issued for the row as it was, and a
\* token accepted before the step is accepted after it; and in every state
\* a token that login issued is accepted as long as it has not reached its
\* own expiry, whatever resets have been committed since.
C38_ResetKeepsSessions ==
    /\ [](\A e \in Emails :
             (bearer[e] # NoBearer /\ ~(bearer[e].exp < now)) => Accepted(e))
    /\ [][\A i \in Ids :
             (users[i].reset_token # NoToken /\ users'[i].reset_token = NoToken)
                => /\ bearer'[users[i].email] = bearer[users[i].email]
                   /\ Accepted(users[i].email) => Accepted(users[i].email)'
         ]_vars

\* The administrator's password is no longer the one of the seed (a reset
\* has committed) and the bearer token held for the administrator is
\* accepted.
C38_Witness ==
    /\ history.reset # {}
    /\ users[1].hashed_password # AdminSeed.hashed_password
    /\ users[1].reset_token = NoToken
    /\ Accepted(AdminEmail)

\* C39: in every reachable state a row whose reset_token is not null has
\* verified = TRUE: a reset token is issued to verified rows only, and no
\* writer sets verified back to FALSE.
C39_ResetTokenOnlyOnVerified ==
    \A i \in Ids : users[i].reset_token # NoToken => users[i].verified

\* A row that signed up and was verified by its token holds a reset token.
C39_Witness ==
    \E i \in Ids :
        /\ users[i].reset_token # NoToken
        /\ users[i].role = "user"
        /\ history.verified # {}

\* The contacts table of the run in which the address books of the users
\* other than user_id are empty.
OwnBook(user_id) == contacts \ Foreign(contacts, user_id)

\* C40: whether a creation or an update of a contact by a user succeeds
\* does not depend on the contacts of the other users: the request is
\* answered as in the run that differs only in the other users' address
\* books being empty, i.e. a creation is answered 201 and an update of one
\* of the caller's contacts 200 unless a row of the caller's own address
\* book already holds the email.
C40_ContactWriteIndependentOfOtherBooks ==
    \A token \in Bearers, contact \in ContactCreates :
        LET cu == get_current_user(token, NoFault) IN
        cu.status = 0 =>
            /\ create_contact_route(token, NoFault, contact).status = 201
                  <=> ~ContactEmailTakenIn(OwnBook(cu.uid), nextContactId,
                                           contact.email)
            /\ \A contact_id \in ContactIds :
                  get_contact(contact_id, cu.uid) # {} =>
                     (update_contact_route(token, NoFault, contact_id,
                                           contact).status = 200
                        <=> ~ContactEmailTakenIn(OwnBook(cu.uid), contact_id,
                                                 contact.email))

====
